---------------------------- MODULE Spec2Model ----------------------------
(***************************************************************************)
(* CurvePrimitive (geometry-core, curve/CurvePrimitive.ts) and the stroke  *)
(* handlers defined in the same file: the signed-distance repositioner     *)
(* (moveSignedDistanceFromFraction and its generic Newton loop) and the    *)
(* closest-point searcher (ClosestPointStrokeHandler).                     *)
(*                                                                         *)
(* Numbers.  A JavaScript number is modelled as an exact rational <<n, d>> *)
(* in lowest terms with d > 0, or one of the three IEEE special values     *)
(* NaN = <<0,0>>, +Infinity = <<1,0>>, -Infinity = <<-1,0>>.  Rounding is  *)
(* not modelled; the special values and the comparison rules for NaN are.  *)
(* Every divisor the code uses that can be zero is a magnitude (+0), so    *)
(* the sign of a zero is not modelled.                                     *)
(***************************************************************************)
EXTENDS Integers, Sequences, FiniteSets, TLC

VARIABLES
    pc,          \* position of the running call
    call,        \* the arguments of the call (and the curve it is made on)
    loc,         \* locals of moveSignedDistanceFromFractionGeneric, or the
                 \* stroke handler of closestPoint
    hist,        \* one entry per executed loop body of the repositioner, or
                 \* one entry per candidate announced to the stroke handler
    result       \* the returned CurveLocationDetail, or None

vars == <<pc, call, loc, hist, result>>

None == [none |-> TRUE]

---------------------------------------------------------------------------
(* Bounds of the model *)
NumSegments == 2
MaxMove == 2
FractionDen == 2
MaxDistance == 4

---------------------------------------------------------------------------
(* Number arithmetic *)
RECURSIVE GCD(_, _)
GCD(a, b) == IF b = 0 THEN a ELSE GCD(b, a % b)

AbsInt(i) == IF i < 0 THEN -i ELSE i

SignInt(i) == IF i > 0 THEN 1 ELSE IF i < 0 THEN -1 ELSE 0

NaN == <<0, 0>>
PosInf == <<1, 0>>
NegInf == <<-1, 0>>

Norm(n, d) ==
    LET g == GCD(AbsInt(n), AbsInt(d))
        s == IF d < 0 THEN -1 ELSE 1
    IN  <<(s * n) \div g, (s * d) \div g>>

Num(i) == <<i, 1>>
Frac(n, d) == Norm(n, d)
Zero == Num(0)
One == Num(1)

IsNaN(x) == x = NaN
IsFinite(x) == x[2] # 0
Sign(x) == SignInt(x[1])

Neg(a) == <<-a[1], a[2]>>
Abs(a) == <<AbsInt(a[1]), a[2]>>

Add(a, b) ==
    IF IsNaN(a) \/ IsNaN(b) THEN NaN
    ELSE IF ~IsFinite(a) /\ ~IsFinite(b) THEN (IF a = b THEN a ELSE NaN)
    ELSE IF ~IsFinite(a) THEN a
    ELSE IF ~IsFinite(b) THEN b
    ELSE Norm(a[1] * b[2] + b[1] * a[2], a[2] * b[2])

Sub(a, b) == Add(a, Neg(b))

Mul(a, b) ==
    IF IsNaN(a) \/ IsNaN(b) THEN NaN
    ELSE IF ~IsFinite(a) \/ ~IsFinite(b)
         THEN (IF Sign(a) * Sign(b) = 0 THEN NaN ELSE <<Sign(a) * Sign(b), 0>>)
    ELSE Norm(a[1] * b[1], a[2] * b[2])

Div(a, b) ==
    IF IsNaN(a) \/ IsNaN(b) THEN NaN
    ELSE IF ~IsFinite(a) /\ ~IsFinite(b) THEN NaN
    ELSE IF ~IsFinite(b) THEN Zero
    ELSE IF ~IsFinite(a) THEN <<Sign(a) * (IF Sign(b) < 0 THEN -1 ELSE 1), 0>>
    ELSE IF b[1] = 0 THEN (IF a[1] = 0 THEN NaN ELSE <<Sign(a), 0>>)
    ELSE Norm(a[1] * b[2], a[2] * b[1])

\* a < b; false when either is NaN
Lt(a, b) ==
    IF IsNaN(a) \/ IsNaN(b) THEN FALSE
    ELSE IF a = b THEN FALSE
    ELSE IF a = NegInf \/ b = PosInf THEN TRUE
    ELSE IF a = PosInf \/ b = NegInf THEN FALSE
    ELSE a[1] * b[2] < b[1] * a[2]

Gt(a, b) == Lt(b, a)

\* a === b; false when either is NaN
Eq(a, b) == ~IsNaN(a) /\ ~IsNaN(b) /\ a = b

Le(a, b) == Lt(a, b) \/ Eq(a, b)

\* Geometry.interpolate(a, f, b) = a + f * (b - a)
Interpolate(a, f, b) == Add(a, Mul(f, Sub(b, a)))

\* Geometry.isIn01
IsIn01(x) == Le(Zero, x) /\ Le(x, One)

---------------------------------------------------------------------------
(* Curves.  CurvePrimitive is abstract; the concrete curves of the model   *)
(* are polylines on the x axis: NumSegments segments over equal fraction   *)
(* intervals, segment i moving the point by moves[i] (a segment may have   *)
(* length 0, or run backwards over the previous one).  A curve stroking    *)
(* itself announces each segment once.  getFractionToDistanceScale() may   *)
(* be defined only when all segments have the same length.                 *)

Moves == (0 - MaxMove)..MaxMove
SegmentIndex == 1..NumSegments

Curves ==
    {c \in [proportional : BOOLEAN, moves : [SegmentIndex -> Moves]] :
        c.proportional =>
            \A i \in SegmentIndex : AbsInt(c.moves[i]) = AbsInt(c.moves[1])}

RECURSIVE StartOfSegment(_, _)
StartOfSegment(curve, i) ==
    IF i = 1 THEN 0 ELSE StartOfSegment(curve, i - 1) + curve.moves[i - 1]

\* Index of the segment an evaluation at `fraction` uses: fractions below 0
\* and above 1 evaluate the first and the last segment, extended.
SegmentAt(fraction) ==
    IF ~IsFinite(fraction) THEN (IF Sign(fraction) < 0 THEN 1 ELSE NumSegments)
    ELSE LET k == (fraction[1] * NumSegments) \div fraction[2]
         IN  IF k < 0 THEN 1 ELSE IF k >= NumSegments THEN NumSegments ELSE k + 1

\* fractionToPoint: the x coordinate of the curve point.
FractionToPoint(curve, fraction) ==
    IF IsNaN(fraction) THEN NaN
    ELSE LET i == SegmentAt(fraction)
             localFraction == Sub(Mul(fraction, Num(NumSegments)), Num(i - 1))
         IN  Add(Num(StartOfSegment(curve, i)),
                 Mul(localFraction, Num(curve.moves[i])))

\* fractionToPointAndDerivative(...).direction: derivative of x with respect
\* to the fraction.
FractionToDerivative(curve, fraction) ==
    IF IsNaN(fraction) THEN NaN
    ELSE Num(curve.moves[SegmentAt(fraction)] * NumSegments)

\* Point3d.distance, on the x axis
Distance(pointA, pointB) == Abs(Sub(pointB, pointA))

\* The announcements of emitStrokableParts(handler) of a polyline curve.
SegmentStroke(curve, i) ==
    [kind |-> "segment",
     point0 |-> Num(StartOfSegment(curve, i)),
     point1 |-> Num(StartOfSegment(curve, i) + curve.moves[i]),
     fraction0 |-> Frac(i - 1, NumSegments),
     fraction1 |-> Frac(i, NumSegments)]

EmitStrokableParts(curve) == [i \in SegmentIndex |-> SegmentStroke(curve, i)]

---------------------------------------------------------------------------
(* CurveLengthContext: the length integrator *)

\* constructor(fraction0, fraction1)
CurveLengthContextAsGiven(fraction0, fraction1) ==
    [summedLength |-> Zero, fraction0 |-> fraction0, fraction1 |-> fraction1]

\* constructor(fraction0, fraction1)
CurveLengthContext(fraction0, fraction1) ==
    IF Lt(fraction0, fraction1)
    THEN [summedLength |-> Zero, fraction0 |-> fraction0, fraction1 |-> fraction1]
    ELSE [summedLength |-> Zero, fraction0 |-> fraction1, fraction1 |-> fraction0]

LengthAnnounceSegmentIntervalUnclipped(context, point0, point1, fraction0, fraction1) ==
    IF Lt(fraction0, context.fraction1) /\ Lt(context.fraction0, fraction1)
    THEN [context EXCEPT !.summedLength = Add(@, Distance(point0, point1))]
    ELSE context

\* announceSegmentInterval
LengthAnnounceSegmentInterval(context, point0, point1, fraction0, fraction1) ==
    LET segmentLength == Distance(point0, point1)
    IN  IF Le(context.fraction0, fraction0) /\ Le(fraction1, context.fraction1)
        THEN [context EXCEPT !.summedLength = Add(@, segmentLength)]
        ELSE LET g0 == IF Lt(fraction0, context.fraction0)
                       THEN context.fraction0 ELSE fraction0
                 g1 == IF Gt(fraction1, context.fraction1)
                       THEN context.fraction1 ELSE fraction1
             IN  IF Gt(g1, g0)
                 THEN [context EXCEPT !.summedLength =
                          Add(@, Div(Mul(segmentLength, Sub(g1, g0)),
                                     Sub(fraction1, fraction0)))]
                 ELSE context

RECURSIVE LengthEmit(_, _, _)
LengthEmit(context, strokes, i) ==
    IF i > Len(strokes) THEN context
    ELSE LengthEmit(LengthAnnounceSegmentInterval(context, strokes[i].point0,
                        strokes[i].point1, strokes[i].fraction0, strokes[i].fraction1),
                    strokes, i + 1)

\* CurvePrimitive.curveLength
CurveLength(curve) ==
    LengthEmit(CurveLengthContext(Zero, One), EmitStrokableParts(curve), 1).summedLength

\* CurvePrimitive.getFractionToDistanceScale: defined or undefined
HasFractionToDistanceScale(curve) == curve.proportional

\* CurvePrimitive.getFractionToDistanceScale: "when defined, the scale
\* factor is always the length of the curve"
GetFractionToDistanceScale(curve) ==
    IF HasFractionToDistanceScale(curve) THEN CurveLength(curve) ELSE None

ProportionalLengthTimesScale(curve, fraction0, fraction1) ==
    Mul(GetFractionToDistanceScale(curve),
        Abs(Mul(Sub(fraction1, fraction0), CurveLength(curve))))

\* Math.abs((fraction1 - fraction0) * totalLength)
ProportionalLength(curve, fraction0, fraction1) ==
    Abs(Mul(Sub(fraction1, fraction0), CurveLength(curve)))

\* CurvePrimitive.curveLengthBetweenFractions
CurveLengthBetweenFractions(curve, fraction0, fraction1) ==
    IF Eq(fraction0, fraction1) THEN Zero
    ELSE IF HasFractionToDistanceScale(curve)
         THEN ProportionalLength(curve, fraction0, fraction1)
    ELSE Abs(LengthEmit(CurveLengthContext(fraction0, fraction1),
                        EmitStrokableParts(curve), 1).summedLength)

---------------------------------------------------------------------------
(* CurveLocationDetail and the helpers of the repositioner *)

CurveSearchStatus == {"error", "success", "stoppedAtBoundary"}

\* A CurveLocationDetail holding the curve's own point at `fraction`
Detail(curve, fraction, a, status) ==
    [curve |-> curve, fraction |-> fraction,
     point |-> FractionToPoint(curve, fraction), a |-> a,
     curveSearchStatus |-> status]

\* Geometry.conditionalDivideFraction: undefined (None) when the quotient
\* cannot be computed.
ConditionalDivideFraction(numerator, denominator) ==
    IF IsFinite(numerator) /\ IsFinite(denominator) /\ denominator[1] # 0
    THEN Div(numerator, denominator)
    ELSE None

\* CurveLocationDetail.createConditionalMoveSignedDistance: with extension
\* disallowed, an end fraction outside [0,1] is clamped to the boundary and
\* the distance actually moved is reported.
CreateConditionalMoveSignedDistance(allowExtension, curve, startFraction, endFraction, requestedSignedDistance) ==
    IF ~allowExtension /\ Lt(endFraction, Zero)
    THEN Detail(curve, Zero,
                Neg(CurveLengthBetweenFractions(curve, startFraction, Zero)),
                "stoppedAtBoundary")
    ELSE IF ~allowExtension /\ Gt(endFraction, One)
    THEN Detail(curve, One,
                CurveLengthBetweenFractions(curve, startFraction, One),
                "stoppedAtBoundary")
    ELSE Detail(curve, endFraction, requestedSignedDistance, "success")

---------------------------------------------------------------------------
(* moveSignedDistanceFromFraction *)

TolExponent == 12
MaxIterations == 10
ExactRepeat == 100

RECURSIVE DivPow10(_, _)
DivPow10(m, k) == IF k = 0 THEN m ELSE DivPow10(m \div 10, k - 1)

\* Math.abs(distanceError) < tol, where tol = 1.0e-12 * availableLength,
\* decided exactly on the numerators and denominators.
UnderTolerance(distanceError, availableLength) ==
    LET e == Abs(distanceError)
    IN  IF IsNaN(e) \/ IsNaN(availableLength) \/ ~IsFinite(e) THEN FALSE
        ELSE IF ~IsFinite(availableLength) THEN Sign(availableLength) > 0
        ELSE LET x == e[1] * availableLength[2]
                 m == availableLength[1] * e[2]
             IN  m >= 1 /\ x <= DivPow10(m - 1, TolExponent)

NoLocals ==
    [limitFraction |-> Zero, absDistance |-> Zero, directionFactor |-> One,
     availableLength |-> Zero, fractionA |-> Zero, fractionB |-> Zero,
     distanceA |-> Zero, numConverged |-> 0, iterations |-> 0]

Fractions == {Frac(k, FractionDen) : k \in 0..FractionDen}
SignedDistances == {Num(k) : k \in (0 - MaxDistance)..MaxDistance}

MoveInit ==
    /\ pc = "call"
    /\ call \in [curve : Curves, startFraction : Fractions,
                 signedDistance : SignedDistances, allowExtension : BOOLEAN]
    /\ loc = NoLocals
    /\ hist = <<>>
    /\ result = None

ProportionalResultIgnoresExtension(curve, startFraction, signedDistance, allowExtension) ==
    LET totalLength == CurveLength(curve)
        signedFractionMove == ConditionalDivideFraction(signedDistance, totalLength)
    IN  IF signedFractionMove = None
        THEN Detail(curve, startFraction, Zero, "error")
        ELSE CreateConditionalMoveSignedDistance(
                 TRUE, curve, startFraction,
                 Add(startFraction, signedFractionMove), signedDistance)

ProportionalResultNoScale(curve, startFraction, signedDistance, allowExtension) ==
    LET totalLength == CurveLength(curve)
        signedFractionMove == ConditionalDivideFraction(signedDistance, totalLength)
    IN  IF signedFractionMove = None
        THEN Detail(curve, startFraction, Zero, "error")
        ELSE CreateConditionalMoveSignedDistance(
                 allowExtension, curve, startFraction,
                 Add(startFraction, signedDistance), signedDistance)

ProportionalResultZeroLengthStays(curve, startFraction, signedDistance, allowExtension) ==
    LET totalLength == CurveLength(curve)
        signedFractionMove == ConditionalDivideFraction(signedDistance, totalLength)
    IN  CreateConditionalMoveSignedDistance(
            allowExtension, curve, startFraction,
            IF signedFractionMove = None THEN startFraction
            ELSE Add(startFraction, signedFractionMove), signedDistance)

\* The record of the proportional path (lines 183-195)
ProportionalResult(curve, startFraction, signedDistance, allowExtension) ==
    LET totalLength == CurveLength(curve)
        signedFractionMove == ConditionalDivideFraction(signedDistance, totalLength)
    IN  IF signedFractionMove = None
        THEN Detail(curve, startFraction, Zero, "error")
        ELSE CreateConditionalMoveSignedDistance(
                 allowExtension, curve, startFraction,
                 Add(startFraction, signedFractionMove), signedDistance)

\* moveSignedDistanceFromFraction on a curve with a distance scale: the
\* whole call.
MoveProportional ==
    /\ pc = "call"
    /\ HasFractionToDistanceScale(call.curve)
    /\ result' = ProportionalResult(call.curve, call.startFraction,
                                    call.signedDistance, call.allowExtension)
    /\ pc' = "doneProportional"
    /\ UNCHANGED <<call, loc, hist>>

LimitFraction(signedDistance) == IF Gt(signedDistance, Zero) THEN One ELSE Zero

DirectionFactor(signedDistance) ==
    IF Lt(signedDistance, Zero) THEN Neg(One) ELSE One

\* The test of the early return (line 221)
StopsAtBoundary(availableLength, absDistance, allowExtension) ==
    Lt(availableLength, absDistance) /\ ~allowExtension

\* moveSignedDistanceFromFractionGeneric up to the loop (lines 217-229):
\* the early return at the boundary, or the seed of the iteration.
MoveGenericStart ==
    /\ pc = "call"
    /\ ~HasFractionToDistanceScale(call.curve)
    /\ LET limitFraction == LimitFraction(call.signedDistance)
           absDistance == Abs(call.signedDistance)
           directionFactor == DirectionFactor(call.signedDistance)
           availableLength == CurveLengthBetweenFractions(
                                  call.curve, call.startFraction, limitFraction)
           fractionStep == Div(absDistance, availableLength)
       IN  /\ loc' = [limitFraction |-> limitFraction,
                      absDistance |-> absDistance,
                      directionFactor |-> directionFactor,
                      availableLength |-> availableLength,
                      fractionB |-> Interpolate(call.startFraction, fractionStep,
                                                limitFraction),
                      fractionA |-> call.startFraction,
                      distanceA |-> Zero,
                      numConverged |-> 0,
                      iterations |-> 0]
           /\ IF StopsAtBoundary(availableLength, absDistance, call.allowExtension)
              THEN /\ result' = CreateConditionalMoveSignedDistance(
                                    call.allowExtension, call.curve,
                                    call.startFraction, limitFraction,
                                    call.signedDistance)
                   /\ pc' = "doneBoundary"
              ELSE /\ result' = result
                   /\ pc' = "loop"
    /\ UNCHANGED <<call, hist>>

\* The loop test (line 234)
LoopContinuesOffByOne(iterations) == iterations <= MaxIterations

LoopContinues(iterations) == iterations < MaxIterations

\* The record returned when the iteration did not converge (lines 259-262)
ErrorResultStatusNotSet(curve, startFraction) ==
    Detail(curve, startFraction, Zero, "success")

ErrorResult(curve, startFraction) ==
    [Detail(curve, startFraction, Zero, "success")
         EXCEPT !.a = Zero, !.curveSearchStatus = "error"]

\* numConverged after the tolerance test of one loop body (lines 239-245)
CountConvergedNoReset(underTolerance, numConverged) ==
    IF underTolerance THEN numConverged + 1 ELSE numConverged

CountConverged(underTolerance, numConverged) ==
    IF underTolerance THEN numConverged + 1 ELSE 0

\* One execution of the loop body (lines 235-254).
MoveLoopBody ==
    /\ pc = "loop"
    /\ LoopContinues(loc.iterations)
    /\ LET distanceAB == CurveLengthBetweenFractions(call.curve, loc.fractionA,
                                                     loc.fractionB)
           directionAB == IF Gt(loc.fractionB, loc.fractionA)
                          THEN loc.directionFactor ELSE Neg(loc.directionFactor)
           distance0B == Add(loc.distanceA, Mul(directionAB, distanceAB))
           distanceError == Sub(loc.absDistance, distance0B)
           underTolerance == UnderTolerance(distanceError, loc.availableLength)
           numConverged == CountConverged(underTolerance, loc.numConverged)
           tangentMagnitude == Abs(FractionToDerivative(call.curve, loc.fractionB))
           fractionA == loc.fractionB
           fractionB == Add(fractionA,
                            Div(Mul(loc.directionFactor, distanceError),
                                tangentMagnitude))
       IN  IF underTolerance /\ numConverged > 1
           THEN /\ loc' = [loc EXCEPT !.numConverged = numConverged]
                /\ hist' = Append(hist, [under |-> underTolerance, repeat |-> FALSE])
                /\ pc' = "exit"
           ELSE IF Eq(fractionA, fractionB)
           THEN /\ loc' = [loc EXCEPT !.numConverged = ExactRepeat,
                                      !.fractionA = fractionA,
                                      !.fractionB = fractionB]
                /\ hist' = Append(hist, [under |-> underTolerance, repeat |-> TRUE])
                /\ pc' = "exit"
           ELSE /\ loc' = [loc EXCEPT !.numConverged = numConverged,
                                      !.fractionA = fractionA,
                                      !.fractionB = fractionB,
                                      !.distanceA = distance0B,
                                      !.iterations = loc.iterations + 1]
                /\ hist' = Append(hist, [under |-> underTolerance, repeat |-> FALSE])
                /\ pc' = "loop"
    /\ UNCHANGED <<call, result>>

ConvergedResultAsAllowed(allowExtension, curve, startFraction, fractionB, signedDistance) ==
    CreateConditionalMoveSignedDistance(allowExtension, curve, startFraction,
                                        fractionB, signedDistance)

\* The record returned when the iteration converged (line 257): the result
\* is made with allowExtension = false, whatever the caller passed
ConvergedResult(allowExtension, curve, startFraction, fractionB, signedDistance) ==
    CreateConditionalMoveSignedDistance(FALSE, curve, startFraction,
                                        fractionB, signedDistance)

\* After the loop (lines 256-262): the converged result, or the error record.
MoveLoopExit ==
    /\ \/ pc = "exit"
       \/ pc = "loop" /\ ~LoopContinues(loc.iterations)
    /\ IF loc.numConverged > 1
       THEN /\ result' = ConvergedResult(
                             call.allowExtension, call.curve,
                             call.startFraction, loc.fractionB,
                             call.signedDistance)
            /\ pc' = "doneConverged"
       ELSE /\ result' = ErrorResult(call.curve, call.startFraction)
            /\ pc' = "doneError"
    /\ UNCHANGED <<call, loc, hist>>

MoveNext ==
    \/ MoveProportional
    \/ MoveGenericStart
    \/ MoveLoopBody
    \/ MoveLoopExit

Spec == MoveInit /\ [][MoveNext]_vars

---------------------------------------------------------------------------
(* The repositioner: claims *)

MoveDone ==
    pc \in {"doneProportional", "doneBoundary", "doneConverged", "doneError"}

LastBody == hist[Len(hist)]

LastTwoUnderTolerance ==
    Len(hist) >= 2 /\ hist[Len(hist)].under /\ hist[Len(hist) - 1].under

\* C3: moving by distance 0 from any start fraction returns the curve's point
\* at the start fraction, with a = 0 and status success (stated for curves of
\* nonzero length).
C3_ZeroMoveSucceeds ==
    (MoveDone /\ call.signedDistance = Zero /\ CurveLength(call.curve) # Zero)
        => /\ result.point = FractionToPoint(call.curve, call.startFraction)
           /\ result.a = Zero
           /\ result.curveSearchStatus = "success"

\* C4: on a curve without a distance scale, when extension is disallowed and
\* the length available up to the travel-direction endpoint is smaller than
\* the requested distance, the call returns at that endpoint with status
\* stoppedAtBoundary, before any loop body has run.
C4_StopsAtBoundaryBeforeIterating ==
    (MoveDone /\ ~HasFractionToDistanceScale(call.curve) /\ ~call.allowExtension
        /\ Lt(CurveLengthBetweenFractions(call.curve, call.startFraction,
                                          LimitFraction(call.signedDistance)),
              Abs(call.signedDistance)))
        => /\ result.fraction = LimitFraction(call.signedDistance)
           /\ result.curveSearchStatus = "stoppedAtBoundary"
           /\ Len(hist) = 0

\* C5: when the loop has run 10 times without two consecutive bodies under
\* tolerance and without an exact repeat of the fraction estimate, the record
\* returned has status error, the start fraction, the curve's point there,
\* and a = 0.
C5_ErrorAfterTenIterations ==
    (MoveDone /\ Len(hist) = MaxIterations /\ ~LastTwoUnderTolerance
        /\ ~LastBody.repeat)
        => result = [curve |-> call.curve,
                     fraction |-> call.startFraction,
                     point |-> FractionToPoint(call.curve, call.startFraction),
                     a |-> Zero,
                     curveSearchStatus |-> "error"]

C5_Witness ==
    /\ pc = "doneError"
    /\ Len(hist) = MaxIterations
    /\ IsFinite(loc.fractionB)

\* C6: the loop reports convergence only after two consecutive bodies under
\* tolerance or an exact repeat of the fraction estimate, and a body over
\* tolerance leaves the count of consecutive bodies under tolerance at zero.
C6_ConvergenceRule ==
    /\ pc = "doneConverged" => (LastBody.repeat \/ LastTwoUnderTolerance)
    /\ (pc \in {"loop", "exit"} /\ Len(hist) > 0 /\ ~LastBody.under
            /\ ~LastBody.repeat)
           => loc.numConverged = 0

C6_Witness ==
    /\ pc = "loop"
    /\ Len(hist) >= 2
    /\ hist[Len(hist) - 1].under
    /\ ~LastBody.under
    /\ loc.numConverged = 0

\* C7: the call always ends: the loop body runs at most 10 times, whatever
\* the available length and the local speed are; a call that has not returned
\* is at a place from which a step is taken (the entry, the loop test, or the
\* code after the loop); and the record returned carries one of the three
\* statuses.
C7_Terminates ==
    /\ Len(hist) <= MaxIterations
    /\ loc.iterations <= MaxIterations
    /\ MoveDone => result.curveSearchStatus \in CurveSearchStatus
    /\ ~MoveDone => /\ pc \in {"call", "loop", "exit"}
                    /\ result = None
                    /\ pc = "exit" => Len(hist) > 0

C7_Witness ==
    /\ MoveDone
    /\ Len(hist) = MaxIterations
    /\ loc.availableLength = Zero
    /\ FractionToDerivative(call.curve, call.startFraction) = Zero

\* The boundary fraction in the direction of travel
BoundaryFraction(signedDistance) ==
    IF Sign(signedDistance) > 0 THEN One ELSE Zero

\* C8: on a curve with a distance scale and nonzero length, with extension
\* disallowed, a move whose end fraction leaves [0,1] is clamped to the
\* boundary, reported as stoppedAtBoundary, and a is the signed distance
\* actually moved, smaller in magnitude than the distance requested.
C8_ProportionalClamp ==
    (pc = "doneProportional" /\ ~call.allowExtension
        /\ CurveLength(call.curve) # Zero
        /\ ~IsIn01(Add(call.startFraction,
                       Div(call.signedDistance, CurveLength(call.curve)))))
        => /\ result.curveSearchStatus = "stoppedAtBoundary"
           /\ result.fraction = BoundaryFraction(call.signedDistance)
           /\ result.point = FractionToPoint(call.curve,
                                             BoundaryFraction(call.signedDistance))
           /\ result.a = Mul(Sub(BoundaryFraction(call.signedDistance),
                                 call.startFraction),
                             CurveLength(call.curve))
           /\ Lt(Abs(result.a), Abs(call.signedDistance))

\* move(0, 2L, false) on a curve of length L > 0 has returned a = L
C8_Witness ==
    /\ pc = "doneProportional"
    /\ ~call.allowExtension
    /\ call.startFraction = Zero
    /\ CurveLength(call.curve) # Zero
    /\ call.signedDistance = Mul(Num(2), CurveLength(call.curve))
    /\ result.a = CurveLength(call.curve)
    /\ result.curveSearchStatus = "stoppedAtBoundary"

\* C9: on a curve with a distance scale and length L > 0, move(0, L, false)
\* returns fraction 1 with status success and a = L.
C9_ExactEndIsSuccess ==
    (pc = "doneProportional" /\ ~call.allowExtension
        /\ call.startFraction = Zero
        /\ CurveLength(call.curve) # Zero
        /\ call.signedDistance = CurveLength(call.curve))
        => /\ result.fraction = One
           /\ result.point = FractionToPoint(call.curve, One)
           /\ result.a = CurveLength(call.curve)
           /\ result.curveSearchStatus = "success"

C9_Witness ==
    /\ pc = "doneProportional"
    /\ ~call.allowExtension
    /\ call.startFraction = Zero
    /\ call.signedDistance = CurveLength(call.curve)
    /\ CurveLength(call.curve) # Zero
    /\ \A i \in SegmentIndex : call.curve.moves[i] = call.curve.moves[1]
    /\ result.fraction = One

---------------------------------------------------------------------------
(* ClosestPointStrokeHandler.  The handler is a record; each method is an  *)
(* operator from the handler before the call to the handler after it.  The *)
(* field `announced` lists the candidates passed to announceCandidate by   *)
(* the method being executed, each with the running best before and after. *)

\* Point3d.fractionOfProjectionToLine(point0, point1, 0.0), on the x axis
FractionOfProjectionToLine(spacePoint, point0, point1) ==
    IF Eq(point0, point1) THEN Zero
    ELSE Div(Sub(spacePoint, point0), Sub(point1, point0))

\* Geometry.clampToStartEnd(x, 0.0, 1.0)
ClampToStartEnd(x) == IF Lt(x, Zero) THEN Zero ELSE IF Lt(One, x) THEN One ELSE x

\* Math.max and Math.min
Max(a, b) == IF IsNaN(a) \/ IsNaN(b) THEN NaN ELSE IF Lt(a, b) THEN b ELSE a
Min(a, b) == IF IsNaN(a) \/ IsNaN(b) THEN NaN ELSE IF Lt(b, a) THEN b ELSE a

\* Geometry.inverseInterpolate(x0, f0, x1, f1): the x at which the line
\* through (x0,f0) and (x1,f1) is zero; undefined (None) when f0 = f1.
InverseInterpolate(x0, f0, x1, f1) ==
    LET g == ConditionalDivideFraction(Neg(f0), Sub(f1, f0))
    IN  IF g = None THEN None ELSE Interpolate(x0, g, x1)

\* the truth value of a number: 0 and NaN are false
Truthy(x) == ~IsNaN(x) /\ x # Zero

\* constructor(spacePoint, extend)
ClosestPointStrokeHandler(spacePoint, extend) ==
    [curve |-> None, parentCurvePrimitive |-> None, closestPoint |-> None,
     spacePoint |-> spacePoint, extend |-> extend,
     fractionA |-> Zero, functionA |-> Zero, functionB |-> Zero,
     fractionB |-> Zero, numThisCurve |-> 0, announced |-> <<>>]

\* startCurvePrimitive(curve)
StartCurvePrimitive(h, curve) ==
    [h EXCEPT !.curve = curve, !.fractionA = Zero, !.numThisCurve = 0,
              !.functionA = Zero]

\* The test that makes announceCandidate return without a change (line 670)
RejectsCandidateOnTie(closestPoint, distance) ==
    closestPoint # None /\ ~Lt(distance, closestPoint.a)

RejectsCandidateNever(closestPoint, distance) ==
    closestPoint # None /\ Gt(distance, distance)

RejectsCandidate(closestPoint, distance) ==
    closestPoint # None /\ Gt(distance, closestPoint.a)

\* announceCandidate(cp, fraction, point)
AnnounceCandidate(h, cp, fraction, point) ==
    LET distance == Distance(h.spacePoint, point)
        best == IF RejectsCandidate(h.closestPoint, distance)
                THEN h.closestPoint
                ELSE [curve |-> IF h.parentCurvePrimitive # None
                                THEN h.parentCurvePrimitive ELSE cp,
                      fraction |-> fraction, point |-> point, a |-> distance]
    IN  [h EXCEPT !.closestPoint = best,
                  !.announced = Append(@, [fraction |-> fraction, point |-> point,
                                           distance |-> distance,
                                           cp |-> cp,
                                           parent |-> h.parentCurvePrimitive,
                                           before |-> h.closestPoint,
                                           after |-> best])]

AnnounceSegmentIntervalExtendsInside(h, cp, point0, point1, fraction0, fraction1) ==
    LET projection == FractionOfProjectionToLine(h.spacePoint, point0, point1)
        localFraction == IF ~h.extend THEN ClampToStartEnd(projection)
                         ELSE projection
    IN  AnnounceCandidate(h, cp, Interpolate(fraction0, localFraction, fraction1),
                          Interpolate(point0, localFraction, point1))

\* announceSegmentInterval(cp, point0, point1, _numStrokes, fraction0, fraction1)
AnnounceSegmentInterval(h, cp, point0, point1, fraction0, fraction1) ==
    LET projection == FractionOfProjectionToLine(h.spacePoint, point0, point1)
        atStart == IF fraction0 # Zero THEN Max(projection, Zero) ELSE projection
        localFraction ==
            IF ~h.extend THEN ClampToStartEnd(projection)
            ELSE IF fraction1 # One THEN Min(atStart, One) ELSE atStart
        workPoint == Interpolate(point0, localFraction, point1)
        globalFraction == Interpolate(fraction0, localFraction, fraction1)
    IN  AnnounceCandidate(h, cp, globalFraction, workPoint)

\* announceSolutionFraction(fraction)
AnnounceSolutionFraction(h, fraction) ==
    IF h.curve # None
    THEN AnnounceCandidate(h, h.curve, fraction, FractionToPoint(h.curve, fraction))
    ELSE h

\* Ray3d.dotProductToPoint(spacePoint) of the ray (origin, direction)
DotProductToPoint(origin, direction, spacePoint) ==
    Mul(direction, Sub(spacePoint, origin))

\* The curve evaluate(fraction) uses: the parent curve when one is active
EvaluatedCurve(h) ==
    IF h.parentCurvePrimitive # None THEN h.parentCurvePrimitive ELSE h.curve

\* evaluate(fraction): currentF, or None when evaluate returns false
Evaluate(h, fraction) ==
    IF EvaluatedCurve(h) = None THEN None
    ELSE DotProductToPoint(FractionToPoint(EvaluatedCurve(h), fraction),
                           FractionToDerivative(EvaluatedCurve(h), fraction),
                           h.spacePoint)

\* PlaneAltitudeEvaluator.altitude(point) and velocity(vector) of the plane
\* through x = plane with its normal along the x axis
PlaneAltitude(plane, point) == Sub(point, plane)
PlaneVelocity(plane, vector) == vector

\* A handler is a closest-point handler or a plane-intersection handler
IsPlaneHandler(h) == "plane" \in DOMAIN h

\* AppendPlaneIntersectionStrokeHandler.effectiveCurve()
EffectiveCurve(h) ==
    IF h.parentCurvePrimitive # None THEN h.parentCurvePrimitive ELSE h.curve

\* AppendPlaneIntersectionStrokeHandler.evaluate(fraction): currentF, or
\* None when evaluate returns false
PlaneEvaluate(h, fraction) ==
    IF EffectiveCurve(h) = None THEN None
    ELSE PlaneAltitude(h.plane, FractionToPoint(EffectiveCurve(h), fraction))

\* this._func.evaluate(x) of the root finder, on the handler it was made for
EvaluateFunction(h, x) ==
    IF IsPlaneHandler(h) THEN PlaneEvaluate(h, x) ELSE Evaluate(h, x)

\* Newton1dUnboundedApproximateDerivative (numerics/Newton.ts), the root
\* finder of the searches: x <- x - f(x) / f'(x), with f'(x) the forward
\* difference (f(x + h) - f(x)) / h.  On the polylines of the model f is
\* linear between breakpoints, the forward difference over a step h that
\* stays in the piece of x equals the slope of f there; the slope of the
\* closest-point function f(t) = x'(t) * (spacePoint - x(t)) is -x'(t)^2,
\* the slope of the altitude f(t) = x(t) - plane is x'(t).
NewtonStepTolExponent == 11
NewtonSuccessiveConvergenceTarget == 2
NewtonMaxIterations == 15

ApproximateDerivative(h, x) ==
    IF IsPlaneHandler(h)
    THEN PlaneVelocity(h.plane, FractionToDerivative(EffectiveCurve(h), x))
    ELSE Neg(Mul(FractionToDerivative(EvaluatedCurve(h), x),
                 FractionToDerivative(EvaluatedCurve(h), x)))

\* computeStep(): the step f(x) / f'(x), or None when there is none
StepOf(f, derivative) ==
    IF f = None THEN None ELSE ConditionalDivideFraction(f, derivative)

NewtonComputeStep(h, x) ==
    StepOf(EvaluateFunction(h, x), ApproximateDerivative(h, x))

\* |step| / (1 + |x|) < 1.0e-11, decided exactly
NewtonStepUnderTolerance(step, x) ==
    LET e == Abs(step)
        w == Add(One, Abs(x))
    IN  IF ~IsFinite(e) \/ IsNaN(w) THEN FALSE
        ELSE IF ~IsFinite(w) THEN TRUE
        ELSE e[1] * w[2] <= DivPow10(w[1] * e[2] - 1, NewtonStepTolExponent)

\* runIterations() from setX(x): [converged, x].  NewtonIterate is the head
\* of the loop, NewtonApplyStep the body once the step is computed.
RECURSIVE NewtonIterate(_, _, _, _)
RECURSIVE NewtonApplyStep(_, _, _, _, _)
NewtonApplyStep(h, x, step, numAccepted, numIterations) ==
    IF step = None THEN [converged |-> FALSE, x |-> x]
    ELSE IF NewtonStepUnderTolerance(step, x)
    THEN IF numAccepted + 1 >= NewtonSuccessiveConvergenceTarget
         THEN [converged |-> TRUE, x |-> Sub(x, step)]
         ELSE NewtonIterate(h, Sub(x, step), numAccepted + 1,
                            numIterations + 1)
    ELSE NewtonIterate(h, Sub(x, step), 0, numIterations + 1)

NewtonIterate(h, x, numAccepted, numIterations) ==
    IF numIterations >= NewtonMaxIterations
    THEN [converged |-> FALSE, x |-> x]
    ELSE NewtonApplyStep(h, x, NewtonComputeStep(h, x), numAccepted,
                         numIterations)

RunIterations(h, x) == NewtonIterate(h, x, 0, 0)

\* setX(fraction); if (runIterations()) announceSolutionFraction(getX())
RefineAndAnnounce(h, fraction) ==
    LET solved == RunIterations(h, fraction)
    IN  IF solved.converged THEN AnnounceSolutionFraction(h, solved.x) ELSE h

\* searchInterval()
SearchInterval(h) ==
    IF Gt(Mul(h.functionA, h.functionB), Zero) THEN h
    ELSE LET hA == IF Eq(h.functionA, Zero)
                   THEN AnnounceSolutionFraction(h, h.fractionA) ELSE h
             hB == IF Eq(h.functionB, Zero)
                   THEN AnnounceSolutionFraction(hA, h.fractionB) ELSE hA
             fraction == InverseInterpolate(h.fractionA, h.functionA,
                                            h.fractionB, h.functionB)
         IN  IF Lt(Mul(h.functionA, h.functionB), Zero)
                  /\ fraction # None /\ Truthy(fraction)
             THEN RefineAndAnnounce(hB, fraction)
             ELSE hB

\* announceRay(fraction, data), with evaluateB inlined
AnnounceRay(h, fraction, origin, direction) ==
    LET hB == [h EXCEPT !.functionB = DotProductToPoint(origin, direction,
                                                        h.spacePoint),
                        !.fractionB = fraction,
                        !.numThisCurve = @ + 1]
        hS == IF h.numThisCurve > 0 THEN SearchInterval(hB) ELSE hB
    IN  [hS EXCEPT !.functionA = hS.functionB, !.fractionA = hS.fractionB]

\* announcePointTangent(point, fraction, tangent)
AnnouncePointTangent(h, point, fraction, tangent) ==
    AnnounceRay(h, fraction, point, tangent)

\* The loop of announceIntervalForUniformStepStrokes from sample i on
RECURSIVE UniformStepStrokes(_, _, _, _, _, _)
UniformStepStrokes(h, cp, numStrokes, fraction0, fraction1, i) ==
    IF i > numStrokes THEN h
    ELSE LET fraction == Interpolate(fraction0, Frac(i, numStrokes), fraction1)
         IN  UniformStepStrokes(
                 AnnounceRay(h, fraction, FractionToPoint(cp, fraction),
                             FractionToDerivative(cp, fraction)),
                 cp, numStrokes, fraction0, fraction1, i + 1)

\* announceIntervalForUniformStepStrokes(cp, numStrokes, fraction0, fraction1)
AnnounceIntervalForUniformStepStrokes(h, cp, numStrokes, fraction0, fraction1) ==
    UniformStepStrokes(StartCurvePrimitive(h, cp), cp,
                       IF numStrokes < 1 THEN 1 ELSE numStrokes,
                       fraction0, fraction1, 0)

ClaimResultOnAnnouncedCurve(h) ==
    IF h.closestPoint # None
    THEN RefineAndAnnounce(h, h.closestPoint.fraction)
    ELSE h

\* claimResult(): the handler after the final refinement; the value
\* returned is its closestPoint.
ClaimResult(h) ==
    IF h.closestPoint # None
    THEN RefineAndAnnounce([h EXCEPT !.curve = h.closestPoint.curve],
                           h.closestPoint.fraction)
    ELSE h

---------------------------------------------------------------------------
(* closestPoint(spacePoint, extend): the handler is created, the curve's   *)
(* emitStrokableParts drives it, and claimResult gives the value returned. *)
(* A curve strokes itself in one of three ways: as its exact segments, as  *)
(* one uniformly sampled interval, or as a sequence of point-and-tangent   *)
(* samples; a straight curve may also stroke itself as one segment over    *)
(* [0,1].  A curve with a parent is the chord of the parent, stroked in  *)
(* place of the parent between startParentCurvePrimitive and               *)
(* endParentCurvePrimitive.                                                *)

ClosestModes == {"segment", "segments", "uniform", "samples"}

SpacePoints == {Frac(k, FractionDen) : k \in (0 - MaxMove)..MaxMove}

PlainCurves == {c \in Curves : ~c.proportional}

\* The one segment a straight curve announces
WholeStroke(curve) ==
    [kind |-> "segment",
     point0 |-> FractionToPoint(curve, Zero),
     point1 |-> FractionToPoint(curve, One),
     fraction0 |-> Zero,
     fraction1 |-> One]

IsStraight(curve) ==
    \A i \in SegmentIndex : curve.moves[i] = curve.moves[1]

ModesOf(curve) ==
    IF IsStraight(curve) THEN ClosestModes ELSE ClosestModes \ {"segment"}

StrokeCounts(mode) ==
    IF mode = "segment" THEN {1}
    ELSE IF mode = "segments" THEN {NumSegments}
    ELSE IF mode = "uniform" THEN {0, NumSegments}
    ELSE {1, NumSegments}

IsChordOf(proxy, parent) ==
    /\ proxy # parent
    /\ IsStraight(proxy)
    /\ FractionToPoint(proxy, One) = FractionToPoint(parent, One)

ParentsOf(curve) == {None} \cup {p \in PlainCurves : IsChordOf(curve, p)}

ClosestInit ==
    /\ pc = "closestPoint"
    /\ \E curve \in PlainCurves, spacePoint \in SpacePoints,
          extend \in BOOLEAN, mode \in ClosestModes :
         \E parent \in ParentsOf(curve), numStrokes \in StrokeCounts(mode) :
           /\ mode \in ModesOf(curve)
           /\ call = [curve |-> curve, parent |-> parent,
                      spacePoint |-> spacePoint, extend |-> extend,
                      mode |-> mode, numStrokes |-> numStrokes]
           /\ loc = [handler |-> ClosestPointStrokeHandler(spacePoint, extend),
                     next |-> 0]
    /\ hist = <<>>
    /\ result = None

\* The handler after a method call made on `before`, and the candidates the
\* call announced
Called(after) == [after EXCEPT !.announced = <<>>]

\* startParentCurvePrimitive(parent)
ClosestStartParentCurvePrimitive ==
    /\ pc = "closestPoint"
    /\ call.parent # None
    /\ loc.handler.parentCurvePrimitive = None
    /\ loc' = [loc EXCEPT !.handler.parentCurvePrimitive = call.parent]
    /\ UNCHANGED <<pc, call, hist, result>>

\* startCurvePrimitive(curve)
ClosestStartCurvePrimitive ==
    /\ pc = "closestPoint"
    /\ call.parent # None => loc.handler.parentCurvePrimitive # None
    /\ loc' = [handler |-> StartCurvePrimitive(loc.handler, call.curve),
               next |-> IF call.mode \in {"segment", "segments"} THEN 1 ELSE 0]
    /\ pc' = "announce"
    /\ UNCHANGED <<call, hist, result>>

\* announceSegmentInterval for the next segment of the curve
ClosestAnnounceSegmentInterval ==
    /\ pc = "announce"
    /\ call.mode \in {"segment", "segments"}
    /\ loc.next <= call.numStrokes
    /\ LET stroke == IF call.mode = "segment" THEN WholeStroke(call.curve)
                     ELSE SegmentStroke(call.curve, loc.next)
           after == AnnounceSegmentInterval(loc.handler, call.curve,
                        stroke.point0, stroke.point1,
                        stroke.fraction0, stroke.fraction1)
       IN  /\ loc' = [handler |-> Called(after), next |-> loc.next + 1]
           /\ hist' = hist \o after.announced
    /\ UNCHANGED <<pc, call, result>>

\* announceIntervalForUniformStepStrokes for the whole curve
ClosestAnnounceIntervalForUniformStepStrokes ==
    /\ pc = "announce"
    /\ call.mode = "uniform"
    /\ loc.next = 0
    /\ LET after == AnnounceIntervalForUniformStepStrokes(
                        loc.handler, call.curve, call.numStrokes, Zero, One)
       IN  /\ loc' = [handler |-> Called(after), next |-> call.numStrokes + 1]
           /\ hist' = hist \o after.announced
    /\ UNCHANGED <<pc, call, result>>

\* announcePointTangent for the next sample of the curve
ClosestAnnouncePointTangent ==
    /\ pc = "announce"
    /\ call.mode = "samples"
    /\ loc.next <= call.numStrokes
    /\ LET fraction == Frac(loc.next, call.numStrokes)
           after == AnnouncePointTangent(loc.handler,
                        FractionToPoint(call.curve, fraction), fraction,
                        FractionToDerivative(call.curve, fraction))
       IN  /\ loc' = [handler |-> Called(after), next |-> loc.next + 1]
           /\ hist' = hist \o after.announced
    /\ UNCHANGED <<pc, call, result>>

\* endCurvePrimitive(): the curve has announced all its strokes
ClosestEndCurvePrimitive ==
    /\ pc = "announce"
    /\ loc.next > call.numStrokes
    /\ pc' = "ended"
    /\ UNCHANGED <<call, loc, hist, result>>

\* endParentCurvePrimitive(parent)
ClosestEndParentCurvePrimitive ==
    /\ pc = "ended"
    /\ loc.handler.parentCurvePrimitive # None
    /\ loc' = [loc EXCEPT !.handler.parentCurvePrimitive = None]
    /\ UNCHANGED <<pc, call, hist, result>>

\* return strokeHandler.claimResult()
ClosestClaimResult ==
    /\ pc = "ended"
    /\ loc.handler.parentCurvePrimitive = None
    /\ LET after == ClaimResult(loc.handler)
       IN  /\ loc' = [loc EXCEPT !.handler = Called(after)]
           /\ hist' = hist \o after.announced
           /\ result' = after.closestPoint
    /\ pc' = "claimed"
    /\ UNCHANGED call

ClosestNext ==
    \/ ClosestStartParentCurvePrimitive
    \/ ClosestStartCurvePrimitive
    \/ ClosestAnnounceSegmentInterval
    \/ ClosestAnnounceIntervalForUniformStepStrokes
    \/ ClosestAnnouncePointTangent
    \/ ClosestEndCurvePrimitive
    \/ ClosestEndParentCurvePrimitive
    \/ ClosestClaimResult

SpecClosest == ClosestInit /\ [][ClosestNext]_vars

---------------------------------------------------------------------------
(* Claims about closestPoint *)

\* C1: closestPoint never returns undefined for a curve that announces at
\* least its two endpoints, as exact segments, as a uniformly sampled
\* interval, or as point-and-tangent samples, for every space point and both
\* values of extend.
C1_NeverUndefined == pc = "claimed" => result # None

\* C2 as stated: the running best is replaced only by a strictly smaller
\* distance, so a candidate announced at exactly the distance of the running
\* best leaves the one announced first in place.
C2_TiesKeepFirst ==
    \A i \in 1..Len(hist) :
        (hist[i].before # None /\ Eq(hist[i].distance, hist[i].before.a))
            => hist[i].after = hist[i].before

\* C2: the running best is kept only against a candidate at a strictly
\* greater distance; every other candidate announced, one at exactly the
\* distance of the running best included, replaces it, so of two candidates
\* at the same distance announced in sequence the last is the one kept.
C2_NotFartherReplaces ==
    /\ \A i \in 1..Len(hist) :
          /\ hist[i].before = (IF i = 1 THEN None ELSE hist[i - 1].after)
          /\ IF hist[i].before # None /\ Gt(hist[i].distance, hist[i].before.a)
             THEN hist[i].after = hist[i].before
             ELSE /\ hist[i].after.fraction = hist[i].fraction
                  /\ hist[i].after.point = hist[i].point
                  /\ hist[i].after.a = hist[i].distance
    /\ loc.handler.closestPoint =
           (IF hist = <<>> THEN None ELSE hist[Len(hist)].after)

\* Two candidates at the same distance and at different fractions have been
\* announced in sequence, and the second is the running best.
C2_Witness ==
    \E i \in 1..Len(hist) :
        /\ hist[i].before # None
        /\ Eq(hist[i].distance, hist[i].before.a)
        /\ hist[i].fraction # hist[i].before.fraction
        /\ hist[i].after.fraction = hist[i].fraction

\* C10: the record returned by closestPoint holds the point of its curve at
\* its fraction, also when the strokes were announced under an active parent
\* curve (the record's curve is then the parent).
C10_PointIsOnCurve ==
    (pc = "claimed" /\ result # None)
        => result.point = FractionToPoint(result.curve, result.fraction)

\* C11: while a parent curve is active, the closest-point searcher uses the
\* parent both for the Newton function and for the point of every solution
\* it records: every candidate announced for a solution fraction of a sampled
\* interval under an active parent holds the parent's point at that fraction.
C11_SolutionPointOnParent ==
    \A i \in 1..Len(hist) :
        (call.mode \in {"uniform", "samples"} /\ hist[i].parent # None)
            => hist[i].point = FractionToPoint(hist[i].parent, hist[i].fraction)

ClosestPointOfSegment(curve, spacePoint, extend) ==
    ClaimResult(Called(AnnounceSegmentInterval(
        StartCurvePrimitive(ClosestPointStrokeHandler(spacePoint, extend), curve),
        curve, WholeStroke(curve).point0, WholeStroke(curve).point1,
        Zero, One))).closestPoint

\* C13: for a curve of nonzero length announced as one segment over [0,1]
\* and a space point that is the curve's own point at fraction f, the calls
\* with extend true and extend false return the same fraction when f is in
\* [0,1]; when f is outside [0,1] they return different fractions, and the
\* fraction returned with extend false is inside [0,1].
C13_ExtendMattersOnlyOutside ==
    (pc = "claimed" /\ call.mode = "segment" /\ call.parent = None
        /\ call.curve.moves[1] # 0)
        => IF IsIn01(Div(call.spacePoint, FractionToPoint(call.curve, One)))
           THEN result.fraction =
                    ClosestPointOfSegment(call.curve, call.spacePoint,
                                          ~call.extend).fraction
           ELSE /\ result.fraction #
                       ClosestPointOfSegment(call.curve, call.spacePoint,
                                             ~call.extend).fraction
                /\ ~call.extend => IsIn01(result.fraction)

\* The function of the closest-point search at a fraction of the curve
ClosestFunctionAt(curve, spacePoint, fraction) ==
    DotProductToPoint(FractionToPoint(curve, fraction),
                      FractionToDerivative(curve, fraction), spacePoint)

\* C14: for a curve whose emission is only the two samples at fractions 0
\* and 1, closestPoint returns a record whose point is the end point of the
\* curve that is nearer to the space point, when the function
\* (curve point - space point) . tangent has no sign change between the two
\* samples.
C14_NearerEndpointReturned ==
    (pc = "claimed" /\ call.mode = "samples" /\ call.numStrokes = 1
        /\ call.parent = None
        /\ Gt(Mul(ClosestFunctionAt(call.curve, call.spacePoint, Zero),
                  ClosestFunctionAt(call.curve, call.spacePoint, One)), Zero))
        => /\ result # None
           /\ result.point \in {FractionToPoint(call.curve, Zero),
                                FractionToPoint(call.curve, One)}
           /\ result.a = Min(Distance(call.spacePoint,
                                      FractionToPoint(call.curve, Zero)),
                             Distance(call.spacePoint,
                                      FractionToPoint(call.curve, One)))

\* The root finder run from the winner's fraction on the winner's curve
RefinementOfWinner(h) ==
    RunIterations([h EXCEPT !.curve = h.closestPoint.curve],
                  h.closestPoint.fraction)

\* C15: claimResult runs the root finder once, from the fraction of the
\* winner of the scan and on the winner's curve (the parent, when the winner
\* was recorded under a parent); it announces the refined fraction as one
\* more candidate if and only if the root finder converges, the candidate
\* replaces the winner only if it is not farther from the space point, and
\* the distance a returned is never larger than the winner's.
C15_OneFinalRefinement ==
    [][(pc = "ended" /\ pc' = "claimed")
        => IF loc.handler.closestPoint = None
           THEN result' = None /\ hist' = hist
           ELSE /\ result' # None
                /\ Le(result'.a, loc.handler.closestPoint.a)
                /\ IF RefinementOfWinner(loc.handler).converged
                   THEN /\ Len(hist') = Len(hist) + 1
                        /\ hist'[Len(hist')].cp = loc.handler.closestPoint.curve
                        /\ hist'[Len(hist')].fraction =
                               RefinementOfWinner(loc.handler).x
                        /\ hist'[Len(hist')].point =
                               FractionToPoint(loc.handler.closestPoint.curve,
                                               RefinementOfWinner(loc.handler).x)
                        /\ hist'[Len(hist')].before = loc.handler.closestPoint
                        /\ result' = hist'[Len(hist')].after
                        /\ Gt(hist'[Len(hist')].distance,
                              loc.handler.closestPoint.a)
                               => result' = loc.handler.closestPoint
                   ELSE /\ hist' = hist
                        /\ result' = loc.handler.closestPoint]_vars

\* The winner of the scan was recorded under a parent, and the refinement on
\* the parent has moved it to another fraction.
C15_Witness ==
    /\ pc = "claimed"
    /\ call.parent # None
    /\ Len(hist) >= 2
    /\ hist[Len(hist)].parent = None
    /\ hist[Len(hist)].cp = call.parent
    /\ hist[Len(hist)].fraction # hist[Len(hist)].before.fraction
    /\ result = hist[Len(hist)].after
    /\ result.fraction = hist[Len(hist)].fraction

---------------------------------------------------------------------------
(* AppendPlaneIntersectionStrokeHandler.  As for the closest-point handler, *)
(* the handler is a record and each method an operator on it.  The field   *)
(* `attempts` lists the runs of the root finder made by the method being   *)
(* executed: the seed, whether the run converged, and the final x.  The    *)
(* field `searches` lists its calls of searchInterval: the two samples     *)
(* searched, the number of root finder runs and the array sizes.           *)

\* Order2Bezier.solveCoffs(a0, a1): the root of a0 + t (a1 - a0), or None
SolveCoffs(a0, a1) == ConditionalDivideFraction(Neg(a0), Sub(a1, a0))

\* startCurvePrimitive(curve)
PlaneStartCurvePrimitive(h, curve) ==
    [h EXCEPT !.curve = curve, !.fractionA = Zero, !.numThisCurve = 0,
              !.functionA = Zero]

\* constructor(plane, intersections)
AppendPlaneIntersectionStrokeHandler(plane, intersections) ==
    [plane |-> plane, intersections |-> intersections,
     curve |-> None, parentCurvePrimitive |-> None,
     fractionA |-> Zero, functionA |-> Zero, functionB |-> Zero,
     fractionB |-> Zero, derivativeB |-> Zero, numThisCurve |-> 0,
     attempts |-> <<>>, searches |-> <<>>]

\* CurveLocationDetail.createCurveFractionPoint(curve, fraction, point)
CreateCurveFractionPoint(curve, fraction, point) ==
    [curve |-> curve, fraction |-> fraction, point |-> point, a |-> Zero]

PlaneAnnounceSolutionFractionInFront(h, fraction) ==
    IF EffectiveCurve(h) # None
    THEN [h EXCEPT !.intersections =
             <<CreateCurveFractionPoint(EffectiveCurve(h), fraction,
                   FractionToPoint(EffectiveCurve(h), fraction))>> \o @]
    ELSE h

\* announceSolutionFraction(fraction)
PlaneAnnounceSolutionFraction(h, fraction) ==
    IF EffectiveCurve(h) # None
    THEN [h EXCEPT !.intersections =
             Append(@, CreateCurveFractionPoint(EffectiveCurve(h), fraction,
                           FractionToPoint(EffectiveCurve(h), fraction)))]
    ELSE h

\* setX(fraction); if (runIterations()) announceSolutionFraction(getX())
PlaneRefineAndAnnounce(h, fraction) ==
    LET solved == RunIterations(h, fraction)
        after == IF solved.converged
                 THEN PlaneAnnounceSolutionFraction(h, solved.x) ELSE h
    IN  [after EXCEPT !.attempts =
            Append(@, [seed |-> fraction, converged |-> solved.converged,
                       x |-> solved.x, curve |-> EffectiveCurve(h),
                       sizeBefore |-> Len(h.intersections),
                       sizeAfter |-> Len(after.intersections)])]

PlaneAnnounceSegmentIntervalOnChord(h, cp, point0, point1, fraction0, fraction1) ==
    LET h0 == PlaneAltitude(h.plane, point0)
        h1 == PlaneAltitude(h.plane, point1)
        fraction01 == SolveCoffs(h0, h1)
    IN  IF Gt(Mul(h0, h1), Zero) \/ fraction01 = None THEN h
        ELSE PlaneAnnounceSolutionFraction(
                 h, Interpolate(fraction0, fraction01, fraction1))

PlaneAnnounceSegmentIntervalOnArgument(h, cp, point0, point1, fraction0, fraction1) ==
    LET h0 == PlaneAltitude(h.plane, point0)
        h1 == PlaneAltitude(h.plane, point1)
        fraction01 == SolveCoffs(h0, h1)
    IN  IF Gt(Mul(h0, h1), Zero) \/ fraction01 = None THEN h
        ELSE PlaneRefineAndAnnounce(
                 IF EffectiveCurve(h) = None THEN [h EXCEPT !.curve = cp] ELSE h,
                 Interpolate(fraction0, fraction01, fraction1))

\* announceSegmentInterval(_cp, point0, point1, _numStrokes, fraction0, fraction1)
PlaneAnnounceSegmentInterval(h, cp, point0, point1, fraction0, fraction1) ==
    LET h0 == PlaneAltitude(h.plane, point0)
        h1 == PlaneAltitude(h.plane, point1)
        fraction01 == SolveCoffs(h0, h1)
    IN  IF Gt(Mul(h0, h1), Zero) \/ fraction01 = None THEN h
        ELSE PlaneRefineAndAnnounce(
                 h, Interpolate(fraction0, fraction01, fraction1))

PlaneSearchIntervalMergingZeros(h) ==
    IF Gt(Mul(h.functionA, h.functionB), Zero) THEN h
    ELSE LET hB == IF Eq(h.functionB, Zero)
                   THEN PlaneAnnounceSolutionFraction(h, h.fractionB) ELSE h
             fraction == InverseInterpolate(h.fractionA, h.functionA,
                                            h.fractionB, h.functionB)
         IN  IF Lt(Mul(h.functionA, h.functionB), Zero)
                  /\ fraction # None /\ Truthy(fraction)
             THEN PlaneRefineAndAnnounce(hB, fraction)
             ELSE hB

\* searchInterval()
PlaneSearchInterval(h) ==
    IF Gt(Mul(h.functionA, h.functionB), Zero) THEN h
    ELSE LET hA == IF Eq(h.functionA, Zero)
                   THEN PlaneAnnounceSolutionFraction(h, h.fractionA) ELSE h
             hB == IF Eq(h.functionB, Zero)
                   THEN PlaneAnnounceSolutionFraction(hA, h.fractionB) ELSE hA
             fraction == InverseInterpolate(h.fractionA, h.functionA,
                                            h.fractionB, h.functionB)
         IN  IF Lt(Mul(h.functionA, h.functionB), Zero)
                  /\ fraction # None /\ Truthy(fraction)
             THEN PlaneRefineAndAnnounce(hB, fraction)
             ELSE hB

\* The handler after a call of searchInterval, the call listed
PlaneSearchListed(before, after) ==
    [after EXCEPT !.searches =
        Append(@, [fractionA |-> before.fractionA,
                   functionA |-> before.functionA,
                   fractionB |-> before.fractionB,
                   functionB |-> before.functionB,
                   curve |-> EffectiveCurve(before),
                   runs |-> Len(after.attempts) - Len(before.attempts),
                   sizeBefore |-> Len(before.intersections),
                   sizeAfter |-> Len(after.intersections),
                   appended |-> SubSeq(after.intersections,
                                       Len(before.intersections) + 1,
                                       Len(after.intersections))])]

PlaneSearchesFirstSample(h, hB) == PlaneSearchListed(hB, PlaneSearchInterval(hB))

\* if (this._numThisCurve++ > 0) this.searchInterval()
PlaneSearchesAfterFirst(h, hB) ==
    IF h.numThisCurve > 0
    THEN PlaneSearchListed(hB, PlaneSearchInterval(hB)) ELSE hB

\* announcePointTangent(xyz, fraction, tangent), with evaluateB inlined
PlaneAnnouncePointTangent(h, xyz, fraction, tangent) ==
    LET hB == [h EXCEPT !.functionB = PlaneAltitude(h.plane, xyz),
                        !.derivativeB = PlaneVelocity(h.plane, tangent),
                        !.fractionB = fraction,
                        !.numThisCurve = @ + 1]
        hS == PlaneSearchesAfterFirst(h, hB)
    IN  [hS EXCEPT !.functionA = hS.functionB, !.fractionA = hS.fractionB]

\* The loop of announceIntervalForUniformStepStrokes from sample i on
RECURSIVE PlaneUniformStepStrokes(_, _, _, _, _, _)
PlaneUniformStepStrokes(h, cp, numStrokes, fraction0, fraction1, i) ==
    IF i > numStrokes THEN h
    ELSE LET fraction == Interpolate(fraction0, Frac(i, numStrokes), fraction1)
         IN  PlaneUniformStepStrokes(
                 PlaneAnnouncePointTangent(h, FractionToPoint(cp, fraction),
                     fraction, FractionToDerivative(cp, fraction)),
                 cp, numStrokes, fraction0, fraction1, i + 1)

\* announceIntervalForUniformStepStrokes(cp, numStrokes, fraction0, fraction1)
PlaneAnnounceIntervalForUniformStepStrokes(h, cp, numStrokes, fraction0, fraction1) ==
    PlaneUniformStepStrokes(PlaneStartCurvePrimitive(h, cp), cp,
                            IF numStrokes < 1 THEN 1 ELSE numStrokes,
                            fraction0, fraction1, 0)

---------------------------------------------------------------------------
(* appendPlaneIntersectionPoints(plane, result): the handler is created on *)
(* the caller's array, the curve's emitStrokableParts drives it, and the   *)
(* number of records added is returned.  The curve strokes itself as for   *)
(* closestPoint.  In this specification hist lists the runs of the root    *)
(* finder and result is the number returned.                               *)

Planes == SpacePoints

\* The arrays a caller passes: empty, or holding a record of an earlier call
CallerArrays(curve) ==
    {<<>>, <<CreateCurveFractionPoint(curve, One, FractionToPoint(curve, One))>>}

PlaneInit ==
    /\ pc = "appendPlaneIntersectionPoints"
    /\ \E curve \in PlainCurves, plane \in Planes, mode \in ClosestModes :
         \E parent \in ParentsOf(curve), numStrokes \in StrokeCounts(mode),
            intersections \in CallerArrays(curve) :
           /\ mode \in ModesOf(curve)
           /\ call = [curve |-> curve, parent |-> parent, plane |-> plane,
                      mode |-> mode, numStrokes |-> numStrokes,
                      result |-> intersections]
           /\ loc = [handler |-> AppendPlaneIntersectionStrokeHandler(
                                     plane, intersections),
                     n0 |-> Len(intersections), next |-> 0]
    /\ hist = <<>>
    /\ result = None

\* The handler after a method call, its list of root finder runs emptied
PlaneCalled(after) == [after EXCEPT !.attempts = <<>>, !.searches = <<>>]

\* startParentCurvePrimitive(parent)
PlaneStartParentCurvePrimitive ==
    /\ pc = "appendPlaneIntersectionPoints"
    /\ call.parent # None
    /\ loc.handler.parentCurvePrimitive = None
    /\ loc' = [loc EXCEPT !.handler.parentCurvePrimitive = call.parent]
    /\ UNCHANGED <<pc, call, hist, result>>

\* startCurvePrimitive(curve)
PlaneStartCurve ==
    /\ pc = "appendPlaneIntersectionPoints"
    /\ call.parent # None => loc.handler.parentCurvePrimitive # None
    /\ loc' = [loc EXCEPT
                 !.handler = PlaneStartCurvePrimitive(loc.handler, call.curve),
                 !.next = IF call.mode \in {"segment", "segments"} THEN 1 ELSE 0]
    /\ pc' = "announce"
    /\ UNCHANGED <<call, hist, result>>

\* announceSegmentInterval for the next segment of the curve
PlaneAnnounceSegment ==
    /\ pc = "announce"
    /\ call.mode \in {"segment", "segments"}
    /\ loc.next <= call.numStrokes
    /\ LET stroke == IF call.mode = "segment" THEN WholeStroke(call.curve)
                     ELSE SegmentStroke(call.curve, loc.next)
           after == PlaneAnnounceSegmentInterval(loc.handler, call.curve,
                        stroke.point0, stroke.point1,
                        stroke.fraction0, stroke.fraction1)
       IN  /\ loc' = [loc EXCEPT !.handler = PlaneCalled(after),
                                 !.next = loc.next + 1]
           /\ hist' = hist \o after.attempts
    /\ UNCHANGED <<pc, call, result>>

\* announceIntervalForUniformStepStrokes for the whole curve
PlaneAnnounceUniform ==
    /\ pc = "announce"
    /\ call.mode = "uniform"
    /\ loc.next = 0
    /\ LET after == PlaneAnnounceIntervalForUniformStepStrokes(
                        loc.handler, call.curve, call.numStrokes, Zero, One)
       IN  /\ loc' = [loc EXCEPT !.handler = PlaneCalled(after),
                                 !.next = call.numStrokes + 1]
           /\ hist' = hist \o after.attempts
    /\ UNCHANGED <<pc, call, result>>

\* announcePointTangent for the next sample of the curve
PlaneAnnounceSample ==
    /\ pc = "announce"
    /\ call.mode = "samples"
    /\ loc.next <= call.numStrokes
    /\ LET fraction == Frac(loc.next, call.numStrokes)
           after == PlaneAnnouncePointTangent(loc.handler,
                        FractionToPoint(call.curve, fraction), fraction,
                        FractionToDerivative(call.curve, fraction))
       IN  /\ loc' = [loc EXCEPT !.handler = PlaneCalled(after),
                                 !.next = loc.next + 1]
           /\ hist' = hist \o after.attempts
    /\ UNCHANGED <<pc, call, result>>

\* endCurvePrimitive(): the curve has announced all its strokes
PlaneEndCurvePrimitive ==
    /\ pc = "announce"
    /\ loc.next > call.numStrokes
    /\ pc' = "ended"
    /\ UNCHANGED <<call, loc, hist, result>>

\* endParentCurvePrimitive(parent)
PlaneEndParentCurvePrimitive ==
    /\ pc = "ended"
    /\ loc.handler.parentCurvePrimitive # None
    /\ loc' = [loc EXCEPT !.handler.parentCurvePrimitive = None]
    /\ UNCHANGED <<pc, call, hist, result>>

\* result.length - n0
NumberAppended(intersections, n0) == Len(intersections) - n0

\* return result.length - n0
PlaneReturn ==
    /\ pc = "ended"
    /\ loc.handler.parentCurvePrimitive = None
    /\ result' = NumberAppended(loc.handler.intersections, loc.n0)
    /\ pc' = "returned"
    /\ UNCHANGED <<call, loc, hist>>

PlaneNext ==
    \/ PlaneStartParentCurvePrimitive
    \/ PlaneStartCurve
    \/ PlaneAnnounceSegment
    \/ PlaneAnnounceUniform
    \/ PlaneAnnounceSample
    \/ PlaneEndCurvePrimitive
    \/ PlaneEndParentCurvePrimitive
    \/ PlaneReturn

SpecPlane == PlaneInit /\ [][PlaneNext]_vars

---------------------------------------------------------------------------
(* Claims about appendPlaneIntersectionPoints *)

\* The step that announces one exact segment to the plane handler
IsSegmentAnnouncement ==
    /\ pc = "announce"
    /\ call.mode \in {"segment", "segments"}
    /\ loc.next <= call.numStrokes
    /\ loc'.next = loc.next + 1

\* The segment announced by the step from the current state
AnnouncedStroke ==
    IF call.mode = "segment" THEN WholeStroke(call.curve)
    ELSE SegmentStroke(call.curve, loc.next)

\* C16: for an announced exact segment nothing is appended when the
\* endpoint altitudes have a strictly positive product; when the product
\* is <= 0 and the linear altitude model has a root, exactly one record is
\* appended if and only if the root finder, run on the altitude of the
\* effective curve from the interpolated root, converges, and the record
\* holds the refined fraction and the effective curve's point there.
C16_SegmentIntersection ==
    [][IsSegmentAnnouncement =>
         LET h0 == PlaneAltitude(call.plane, AnnouncedStroke.point0)
             h1 == PlaneAltitude(call.plane, AnnouncedStroke.point1)
             fraction01 == SolveCoffs(h0, h1)
             before == loc.handler.intersections
             after == loc'.handler.intersections
             effective == IF call.parent # None THEN call.parent
                          ELSE call.curve
             solved == RunIterations(loc.handler,
                           Interpolate(AnnouncedStroke.fraction0, fraction01,
                                       AnnouncedStroke.fraction1))
         IN  /\ Gt(Mul(h0, h1), Zero) => after = before
             /\ (~Gt(Mul(h0, h1), Zero) /\ fraction01 # None) =>
                  /\ IsIn01(fraction01)
                  /\ solved.converged =>
                       /\ Eq(PlaneAltitude(call.plane,
                               FractionToPoint(effective, solved.x)), Zero)
                       /\ after = Append(before,
                            [curve |-> effective, fraction |-> solved.x,
                             point |-> FractionToPoint(effective, solved.x),
                             a |-> Zero])
                  /\ ~solved.converged => after = before]_vars

\* A segment of a proxy was announced, and the root finder moved the root
\* of the chord onto the parent curve
C16_Witness ==
    /\ call.mode \in {"segment", "segments"}
    /\ call.parent # None
    /\ \E i \in DOMAIN hist :
         /\ hist[i].converged
         /\ hist[i].x # hist[i].seed
         /\ hist[i].sizeAfter = hist[i].sizeBefore + 1

\* C17: when the root finder fails to converge for a bracketed sign change
\* (the altitude at the interpolated seed is not zero, so the crossing is
\* not yet resolved), the interpolated seed fraction is still appended.
C17_SeedKeptOnFailure ==
    \A i \in DOMAIN hist :
        (/\ ~hist[i].converged
         /\ ~Eq(PlaneAltitude(call.plane,
                    FractionToPoint(hist[i].curve, hist[i].seed)), Zero))
          => hist[i].sizeAfter = hist[i].sizeBefore + 1

\* C18: the entries the caller's array held before the call stay unchanged
\* and in the same positions, records are added only at the end, and the
\* number returned is the length after the call minus the length before.
C18_AppendOnly ==
    /\ Len(loc.handler.intersections) >= Len(call.result)
    /\ SubSeq(loc.handler.intersections, 1, Len(call.result)) = call.result
    /\ pc = "returned" =>
         result = Len(loc.handler.intersections) - Len(call.result)

\* A call on a non-empty array returned after appending to it
C18_Witness ==
    /\ pc = "returned"
    /\ Len(call.result) > 0
    /\ result > 0
    /\ loc.handler.intersections[Len(loc.handler.intersections)]
           # call.result[1]

---------------------------------------------------------------------------
(* curveLengthBetweenFractions(fraction0, fraction1) as a state machine:   *)
(* the early returns, or a CurveLengthContext driven by the strokes of the *)
(* curve.  In this specification loc holds the context, hist the sums      *)
(* after each announcement, and result the length returned.                *)

\* Fractions of the calls: inside [0,1], beyond both ends, in either order,
\* at and between the breakpoints of the curve
LengthFractions ==
    {Frac(k, 2 * FractionDen) : k \in (0 - 1)..(2 * FractionDen + 1)}

LengthInit ==
    /\ pc = "curveLengthBetweenFractions"
    /\ \E curve \in Curves, fraction0 \in LengthFractions,
          fraction1 \in LengthFractions :
         call = [curve |-> curve, fraction0 |-> fraction0,
                 fraction1 |-> fraction1]
    /\ loc = [context |-> None, next |-> 0]
    /\ hist = <<>>
    /\ result = None

\* if (fraction0 === fraction1) return 0.0
LengthSameFraction ==
    /\ pc = "curveLengthBetweenFractions"
    /\ Eq(call.fraction0, call.fraction1)
    /\ result' = Zero
    /\ pc' = "returned"
    /\ UNCHANGED <<call, loc, hist>>

\* if (scale !== undefined) return Math.abs((fraction1 - fraction0) * totalLength)
LengthProportional ==
    /\ pc = "curveLengthBetweenFractions"
    /\ ~Eq(call.fraction0, call.fraction1)
    /\ GetFractionToDistanceScale(call.curve) # None
    /\ result' = ProportionalLength(call.curve, call.fraction0, call.fraction1)
    /\ pc' = "returned"
    /\ UNCHANGED <<call, loc, hist>>

\* const context = new CurveLengthContext(fraction0, fraction1)
LengthCreateContext ==
    /\ pc = "curveLengthBetweenFractions"
    /\ ~Eq(call.fraction0, call.fraction1)
    /\ GetFractionToDistanceScale(call.curve) = None
    /\ loc' = [context |-> CurveLengthContext(call.fraction0, call.fraction1),
               next |-> 1]
    /\ pc' = "emitStrokableParts"
    /\ UNCHANGED <<call, hist, result>>

\* this.emitStrokableParts(context): the next segment is announced
LengthAnnounceSegment ==
    /\ pc = "emitStrokableParts"
    /\ loc.next <= NumSegments
    /\ LET stroke == SegmentStroke(call.curve, loc.next)
           after == LengthAnnounceSegmentInterval(loc.context,
                        stroke.point0, stroke.point1,
                        stroke.fraction0, stroke.fraction1)
       IN  /\ loc' = [context |-> after, next |-> loc.next + 1]
           /\ hist' = Append(hist, after.summedLength)
    /\ UNCHANGED <<pc, call, result>>

\* return Math.abs(context.getSum())
LengthReturn ==
    /\ pc = "emitStrokableParts"
    /\ loc.next > NumSegments
    /\ result' = Abs(loc.context.summedLength)
    /\ pc' = "returned"
    /\ UNCHANGED <<call, loc, hist>>

LengthNext ==
    \/ LengthSameFraction
    \/ LengthProportional
    \/ LengthCreateContext
    \/ LengthAnnounceSegment
    \/ LengthReturn

SpecLength == LengthInit /\ [][LengthNext]_vars

\* C19: the length returned for (fraction0, fraction1) is the length of
\* (fraction1, fraction0), on the proportional path and on the integrator
\* path, and it is never negative.
C19_SymmetricAndNonNegative ==
    pc = "returned" =>
        /\ result = CurveLengthBetweenFractions(call.curve, call.fraction1,
                                                call.fraction0)
        /\ Le(Zero, result)

\* The integrator measured part of a segment for fractions given in
\* descending order
C19_Witness ==
    /\ pc = "returned"
    /\ GetFractionToDistanceScale(call.curve) = None
    /\ Gt(call.fraction0, call.fraction1)
    /\ Gt(result, Zero)
    /\ Lt(result, CurveLength(call.curve))
    /\ \E i \in DOMAIN hist : hist[i] # Zero /\ hist[i][2] # 1

\* C20: when getFractionToDistanceScale() returns a scale, the length
\* returned is scale x total-length x |fraction1 - fraction0|.
C20_ScaleTimesLength ==
    (pc = "returned" /\ GetFractionToDistanceScale(call.curve) # None) =>
        result = Mul(Mul(GetFractionToDistanceScale(call.curve),
                         CurveLength(call.curve)),
                     Abs(Sub(call.fraction1, call.fraction0)))

\* C20, amended: when getFractionToDistanceScale() returns a scale, the
\* length returned is total-length x |fraction1 - fraction0|, with no
\* further factor.
C20_LengthTimesFractionSpan ==
    (pc = "returned" /\ GetFractionToDistanceScale(call.curve) # None) =>
        result = Mul(CurveLength(call.curve),
                     Abs(Sub(call.fraction1, call.fraction0)))

\* A proportional curve of length other than 0 and 1 was measured between
\* two different fractions
C20_Witness ==
    /\ pc = "returned"
    /\ GetFractionToDistanceScale(call.curve) # None
    /\ Gt(GetFractionToDistanceScale(call.curve), One)
    /\ ~Eq(call.fraction0, call.fraction1)
    /\ Gt(result, Zero)

---------------------------------------------------------------------------
(* Claims about the length integrator *)

\* The sum before announcement i of the call
SumBefore(i) == IF i = 1 THEN Zero ELSE hist[i - 1]

\* Length of the part of [fraction0, fraction1] inside [g0, g1]
OverlapLength(fraction0, fraction1, g0, g1) ==
    Max(Zero, Sub(Min(fraction1, g1), Max(fraction0, g0)))

\* C21: each announced segment [f0, f1], f0 < f1, adds to the sum its
\* point distance times the length of [f0, f1] inside the target interval
\* [g0, g1], divided by f1 - f0: the whole distance when [f0, f1] lies in
\* [g0, g1], nothing when the two do not overlap.
C21_SegmentContribution ==
    \A i \in DOMAIN hist :
        LET stroke == SegmentStroke(call.curve, i)
            g0 == Min(call.fraction0, call.fraction1)
            g1 == Max(call.fraction0, call.fraction1)
            distance == Distance(stroke.point0, stroke.point1)
            added == Sub(hist[i], SumBefore(i))
        IN  /\ Lt(stroke.fraction0, stroke.fraction1)
            /\ added = Div(Mul(distance,
                               OverlapLength(stroke.fraction0,
                                   stroke.fraction1, g0, g1)),
                           Sub(stroke.fraction1, stroke.fraction0))
            /\ (Le(g0, stroke.fraction0) /\ Le(stroke.fraction1, g1))
                 => added = distance
            /\ (Le(g1, stroke.fraction0) \/ Le(stroke.fraction1, g0))
                 => added = Zero

\* A segment of positive length was measured in part
C21_Witness ==
    \E i \in DOMAIN hist :
        /\ Gt(Sub(hist[i], SumBefore(i)), Zero)
        /\ Lt(Sub(hist[i], SumBefore(i)),
              Distance(SegmentStroke(call.curve, i).point0,
                       SegmentStroke(call.curve, i).point1))

---------------------------------------------------------------------------
(* The repositioner: further claims *)

\* C22: on the proportional path, when the total length of the curve is
\* zero the record returned has fraction = startFraction, the point of the
\* curve at startFraction, a = 0 and status error.
C22_ZeroLengthIsError ==
    (pc = "doneProportional" /\ CurveLength(call.curve) = Zero) =>
        /\ result.fraction = call.startFraction
        /\ result.point = FractionToPoint(call.curve, call.startFraction)
        /\ result.a = Zero
        /\ result.curveSearchStatus = "error"
        /\ result.curve = call.curve

\* A move by a non-zero distance was asked of a curve of length zero
C22_Witness ==
    /\ pc = "doneProportional"
    /\ CurveLength(call.curve) = Zero
    /\ call.signedDistance # Zero
    /\ call.startFraction # Zero
    /\ result.curveSearchStatus = "error"

---------------------------------------------------------------------------
(* The plane-intersection handler under any caller: the methods of         *)
(* IStrokeHandler are called in any order, at most MaxCalls times, with    *)
(* points and tangents of one curve.  loc holds the handler and the number *)
(* of calls made, hist one entry per call: the method, the effective curve *)
(* before the call, the samples counted, the searches and root finder runs *)
(* of the call and the array sizes.                                        *)

MaxCalls == 3

\* Straight curves, and planes through curve points of integer abscissa
HandlerCurves == {c \in PlainCurves : IsStraight(c)}
HandlerPlanes == {Zero, One}

\* Sample fractions on both sides of the start of the curve
SampleFractions == {Frac(k, FractionDen) : k \in (0 - 1)..1}
FirstSampleFraction == Frac(0 - 1, FractionDen)
LastSampleFraction == Frac(1, FractionDen)

HandlerInit ==
    /\ pc = "handler"
    /\ \E curve \in HandlerCurves, plane \in HandlerPlanes :
         /\ call = [curve |-> curve, plane |-> plane]
         /\ loc = [handler |-> AppendPlaneIntersectionStrokeHandler(plane, <<>>),
                   calls |-> 0]
    /\ hist = <<>>
    /\ result = None

\* The entry of hist for one call
HandlerEvent(method, before, after, numStrokes) ==
    [method |-> method, numStrokes |-> numStrokes,
     curveBefore |-> EffectiveCurve(before),
     numBefore |-> before.numThisCurve, numAfter |-> after.numThisCurve,
     searches |-> after.searches, attempts |-> after.attempts,
     sizeBefore |-> Len(before.intersections),
     sizeAfter |-> Len(after.intersections)]

\* The step of one call that takes the handler to `after`
HandlerCall(method, after, numStrokes) ==
    /\ pc = "handler"
    /\ loc.calls < MaxCalls
    /\ loc' = [handler |-> PlaneCalled(after), calls |-> loc.calls + 1]
    /\ hist' = Append(hist, HandlerEvent(method, loc.handler, after, numStrokes))
    /\ UNCHANGED <<pc, call, result>>

\* startCurvePrimitive(curve)
HandlerStartCurvePrimitive ==
    HandlerCall("startCurvePrimitive",
                PlaneStartCurvePrimitive(loc.handler, call.curve), 0)

\* startParentCurvePrimitive(curve)
HandlerStartParentCurvePrimitive ==
    HandlerCall("startParentCurvePrimitive",
                [loc.handler EXCEPT !.parentCurvePrimitive = call.curve], 0)

\* announcePointTangent(xyz, fraction, tangent)
HandlerAnnouncePointTangent ==
    \E fraction \in SampleFractions :
        HandlerCall("announcePointTangent",
                    PlaneAnnouncePointTangent(loc.handler,
                        FractionToPoint(call.curve, fraction), fraction,
                        FractionToDerivative(call.curve, fraction)), 0)

\* announceIntervalForUniformStepStrokes(cp, numStrokes, fraction0, fraction1)
HandlerAnnounceIntervalForUniformStepStrokes ==
    \E numStrokes \in {0, NumSegments} :
        HandlerCall("announceIntervalForUniformStepStrokes",
                    PlaneAnnounceIntervalForUniformStepStrokes(loc.handler,
                        call.curve, numStrokes, FirstSampleFraction,
                        LastSampleFraction), numStrokes)

\* announceSegmentInterval(cp, point0, point1, numStrokes, fraction0, fraction1)
HandlerAnnounceSegmentInterval ==
    HandlerCall("announceSegmentInterval",
                PlaneAnnounceSegmentInterval(loc.handler, call.curve,
                    FractionToPoint(call.curve, FirstSampleFraction),
                    FractionToPoint(call.curve, LastSampleFraction),
                    FirstSampleFraction, LastSampleFraction), 0)

HandlerNext ==
    \/ HandlerStartCurvePrimitive
    \/ HandlerStartParentCurvePrimitive
    \/ HandlerAnnouncePointTangent
    \/ HandlerAnnounceIntervalForUniformStepStrokes
    \/ HandlerAnnounceSegmentInterval

SpecPlaneHandler == HandlerInit /\ [][HandlerNext]_vars

---------------------------------------------------------------------------
(* Claims about the plane-intersection handler under any caller *)

\* The searches of all the calls made so far
SearchesOf(i) == hist[i].searches

\* C23: for every pair of consecutive samples of one curve whose function
\* values have strictly opposite signs the searcher interpolates a seed
\* fraction and runs the root finder from it, whatever the seed's value,
\* a seed fraction of exactly 0 included.
C23_SignChangeIsRefined ==
    \A i \in DOMAIN hist : \A j \in DOMAIN SearchesOf(i) :
        Lt(Mul(SearchesOf(i)[j].functionA, SearchesOf(i)[j].functionB), Zero)
            => SearchesOf(i)[j].runs = 1


\* The number of steps of an interval announced with numStrokes
StepsOf(numStrokes) == IF numStrokes < 1 THEN 1 ELSE numStrokes

\* C24: sign-change bracketing pairs only samples of one announcement run:
\* the first sample after startCurvePrimitive, and the first sample of
\* announceIntervalForUniformStepStrokes, is not searched against an
\* earlier sample, and an interval announced with n steps (n < 1 counts
\* as 1) evaluates n + 1 samples and searches n sub-intervals, each between
\* two consecutive samples of the interval.
C24_BracketsWithinRun ==
    \A i \in DOMAIN hist :
        /\ (/\ hist[i].method = "announcePointTangent"
            /\ i > 1
            /\ hist[i - 1].method = "startCurvePrimitive")
             => hist[i].searches = <<>>
        /\ hist[i].method = "announceIntervalForUniformStepStrokes" =>
             LET n == StepsOf(hist[i].numStrokes)
             IN  /\ hist[i].numAfter = n + 1
                 /\ Len(hist[i].searches) = n
                 /\ \A j \in DOMAIN hist[i].searches :
                      /\ hist[i].searches[j].fractionA =
                           Interpolate(FirstSampleFraction, Frac(j - 1, n),
                                       LastSampleFraction)
                      /\ hist[i].searches[j].fractionB =
                           Interpolate(FirstSampleFraction, Frac(j, n),
                                       LastSampleFraction)

\* A sample was announced, then startCurvePrimitive, then a sample on the
\* other side of the plane
C24_Witness ==
    \E i \in DOMAIN hist :
        /\ i > 2
        /\ hist[i].method = "announcePointTangent"
        /\ hist[i - 1].method = "startCurvePrimitive"
        /\ hist[i - 2].method = "announcePointTangent"
        /\ Lt(Mul(PlaneAltitude(call.plane,
                      FractionToPoint(call.curve, FirstSampleFraction)),
                  loc.handler.functionA), Zero)
        /\ hist[i - 2].numBefore = 0


\* The record appended for a sample of `curve` at `fraction`
SampleRecord(curve, fraction) ==
    CreateCurveFractionPoint(curve, fraction, FractionToPoint(curve, fraction))

\* The records a search appends for those of its two samples whose
\* altitude is exactly zero
ZeroSampleRecords(search) ==
    (IF Eq(search.functionA, Zero)
     THEN <<SampleRecord(search.curve, search.fractionA)>> ELSE <<>>)
    \o (IF Eq(search.functionB, Zero)
        THEN <<SampleRecord(search.curve, search.fractionB)>> ELSE <<>>)

\* C25: with an effective curve, a sample whose altitude is exactly zero is
\* appended once by each search of a sub-interval it bounds: twice for an
\* interior sample of a run (as end of one sub-interval, then as start of
\* the next), and the two equal records are both kept.
C25_ZeroSampleOncePerSearch ==
    \A i \in DOMAIN hist :
        /\ \A j \in DOMAIN SearchesOf(i) :
             (/\ SearchesOf(i)[j].curve # None
              /\ \/ Eq(SearchesOf(i)[j].functionA, Zero)
                 \/ Eq(SearchesOf(i)[j].functionB, Zero))
               => SearchesOf(i)[j].appended = ZeroSampleRecords(SearchesOf(i)[j])
        /\ \A j \in DOMAIN SearchesOf(i) :
             (/\ j > 1
              /\ Eq(SearchesOf(i)[j].functionA, Zero))
               => /\ SearchesOf(i)[j - 1].fractionB = SearchesOf(i)[j].fractionA
                  /\ SearchesOf(i)[j - 1].appended[Len(SearchesOf(i)[j - 1].appended)]
                       = SearchesOf(i)[j].appended[1]
                  /\ hist[i].sizeAfter - hist[i].sizeBefore >= 2

\* An interval of two steps whose middle sample lies on the plane
C25_Witness ==
    \E i \in DOMAIN hist :
        /\ hist[i].method = "announceIntervalForUniformStepStrokes"
        /\ Len(SearchesOf(i)) = 2
        /\ Eq(SearchesOf(i)[1].functionB, Zero)
        /\ ~Eq(SearchesOf(i)[1].functionA, Zero)
        /\ hist[i].sizeAfter = hist[i].sizeBefore + 2

---------------------------------------------------------------------------
(* The generic repositioner and its allowExtension argument *)

\* C26: allowExtension decides only whether the early return at the
\* boundary is taken; a converged result is made with extension
\* disallowed, so a converged fraction outside [0,1] is clamped to the
\* boundary even when the caller passed allowExtension = true.
C26_ConvergedResultIsClamped ==
    /\ pc = "doneBoundary" => ~call.allowExtension
    /\ pc = "doneConverged" =>
         /\ Lt(loc.fractionB, Zero) =>
              /\ result.fraction = Zero
              /\ result.curveSearchStatus = "stoppedAtBoundary"
         /\ Gt(loc.fractionB, One) =>
              /\ result.fraction = One
              /\ result.curveSearchStatus = "stoppedAtBoundary"
         /\ IsIn01(loc.fractionB) =>
              /\ result.fraction = loc.fractionB
              /\ result.curveSearchStatus = "success"

\* The iteration converged beyond the end of the curve for a caller that
\* allowed extension
C26_Witness ==
    /\ pc = "doneConverged"
    /\ call.allowExtension
    /\ ~IsIn01(loc.fractionB)
    /\ result.curveSearchStatus = "stoppedAtBoundary"

---------------------------------------------------------------------------
(* The running best of the closest-point handler *)

\* C27: once a candidate exists the distance a of the running best never
\* increases over the announcements and the final claimResult, and the a
\* returned is the least distance of all the candidates announced.
C27_BestDistanceIsMinimum ==
    /\ \A i \in DOMAIN hist :
         hist[i].before # None => Le(hist[i].after.a, hist[i].before.a)
    /\ (pc = "claimed" /\ result # None) =>
         /\ \A i \in DOMAIN hist : Le(result.a, hist[i].distance)
         /\ \E i \in DOMAIN hist : result.a = hist[i].distance

\* A farther candidate was announced after a nearer one, and the call
\* returned after a final refinement
C27_Witness ==
    /\ pc = "claimed"
    /\ result # None
    /\ \E i \in DOMAIN hist :
         /\ hist[i].before # None
         /\ Gt(hist[i].distance, hist[i].before.a)
    /\ \E i \in DOMAIN hist : Lt(hist[i].distance, hist[1].distance)

---------------------------------------------------------------------------
(* CurveLengthContext under any caller.  The remaining methods of the      *)
(* integrator, then a state machine that calls the methods of              *)
(* IStrokeHandler in any order, at most MaxCalls times.                    *)

\* Quadrature.setupGauss5: the nodes and weights of the five point Gauss
\* rule on [-1, 1].  The middle node and weight are exact; the others are
\* irrational and are given to three decimals, the weights adding up to 2.
\* On the polylines of the model the tangent magnitude is constant between
\* breakpoints, so only the piece a node falls in and its weight matter.
GaussNodes ==
    <<Frac(0 - 29, 32), Frac(0 - 7, 13), Zero, Frac(7, 13), Frac(29, 32)>>
GaussWeights ==
    <<Frac(107, 450), Frac(43, 90), Frac(128, 225), Frac(43, 90),
      Frac(107, 450)>>

\* this._gaussX[k] and this._gaussW[k] after the mapper ran on [xA, xB]
GaussX(xA, xB, k) ==
    Add(xA, Mul(Sub(xB, xA), Div(Add(One, GaussNodes[k]), Num(2))))
GaussW(xA, xB, k) == Mul(GaussWeights[k], Div(Sub(xB, xA), Num(2)))

\* tangentMagnitude(fraction)
TangentMagnitude(curve, fraction) == Abs(FractionToDerivative(curve, fraction))

\* The loop over the Gauss points of one stroke, from point k on
RECURSIVE GaussSum(_, _, _, _, _)
GaussSum(sum, curve, xA, xB, k) ==
    IF k > Len(GaussNodes) THEN sum
    ELSE GaussSum(Add(sum, Mul(GaussW(xA, xB, k),
                               TangentMagnitude(curve, GaussX(xA, xB, k)))),
                  curve, xA, xB, k + 1)

\* The loop over the strokes of announceIntervalForUniformStepStrokes
RECURSIVE LengthUniformStepStrokes(_, _, _, _, _, _)
LengthUniformStepStrokes(sum, cp, numStrokes, fraction0, fraction1, i) ==
    IF i > numStrokes THEN sum
    ELSE LengthUniformStepStrokes(
             GaussSum(sum, cp,
                      Interpolate(fraction0, Frac(i - 1, numStrokes), fraction1),
                      IF i = numStrokes THEN fraction1
                      ELSE Interpolate(fraction0, Frac(i, numStrokes), fraction1),
                      1),
             cp, numStrokes, fraction0, fraction1, i + 1)

\* The interval [fraction0, fraction1] clipped to that of the context
ClippedInterval(context, fraction0, fraction1) ==
    [fraction0 |-> IF Lt(fraction0, context.fraction0)
                   THEN context.fraction0 ELSE fraction0,
     fraction1 |-> IF Gt(fraction1, context.fraction1)
                   THEN context.fraction1 ELSE fraction1]

LengthIntegrateUnguarded(context, cp, numStrokes, clipped) ==
    [context EXCEPT !.summedLength =
        LengthUniformStepStrokes(@, cp, StepsOf(numStrokes),
                                 clipped.fraction0, clipped.fraction1, 1)]

\* if (fraction1 > fraction0) { ... the strokes are integrated ... }
LengthIntegrate(context, cp, numStrokes, clipped) ==
    IF Gt(clipped.fraction1, clipped.fraction0)
    THEN [context EXCEPT !.summedLength =
             LengthUniformStepStrokes(@, cp, StepsOf(numStrokes),
                                      clipped.fraction0, clipped.fraction1, 1)]
    ELSE context

\* announceIntervalForUniformStepStrokes(cp, numStrokes, fraction0, fraction1)
LengthAnnounceIntervalForUniformStepStrokes(context, cp, numStrokes, fraction0, fraction1) ==
    LengthIntegrate(context, cp, numStrokes,
                    ClippedInterval(context, fraction0, fraction1))

LengthAnnouncePointTangentAsStroke(context, xyz, fraction, tangent) ==
    [context EXCEPT !.summedLength = Add(@, Abs(tangent))]

\* announcePointTangent(_xyz, _fraction, _tangent): an empty method
LengthAnnouncePointTangent(context, xyz, fraction, tangent) == context


\* The intervals the integrator is made for: the whole curve (curveLength)
\* and a part of it
TargetIntervals ==
    {[fraction0 |-> Zero, fraction1 |-> One],
     [fraction0 |-> Frac(1, FractionDen), fraction1 |-> One]}

\* The intervals announced for uniform steps: the whole curve, and a part
\* before the first breakpoint
AnnouncedIntervals ==
    {[fraction0 |-> Zero, fraction1 |-> One],
     [fraction0 |-> Zero, fraction1 |-> Frac(1, 2 * FractionDen)]}

\* The integrator uses only distances and tangent magnitudes, which do not
\* depend on the direction of a segment: curves running forwards
IntegratorCurves ==
    {c \in PlainCurves : \A i \in SegmentIndex : c.moves[i] >= 0}

\* loc holds the integrator, its _curve, the number of calls made and the
\* names of the methods called
IntegratorInit ==
    /\ pc = "integrator"
    /\ \E curve \in IntegratorCurves, target \in TargetIntervals :
         /\ call = [curve |-> curve, fraction0 |-> target.fraction0,
                    fraction1 |-> target.fraction1]
         /\ loc = [context |-> CurveLengthContext(target.fraction0,
                                                  target.fraction1),
                   curve |-> None, calls |-> 0, called |-> {}]
    /\ hist = <<>>
    /\ result = None

\* The step of one call that takes the integrator to `after`
IntegratorCall(method, after, curve) ==
    /\ pc = "integrator"
    /\ loc.calls < MaxCalls
    /\ loc' = [context |-> after, curve |-> curve, calls |-> loc.calls + 1,
               called |-> loc.called \cup {method}]
    /\ UNCHANGED <<pc, call, hist, result>>

\* startCurvePrimitive(curve)
IntegratorStartCurvePrimitive ==
    IntegratorCall("startCurvePrimitive", loc.context, call.curve)

\* endCurvePrimitive()
IntegratorEndCurvePrimitive ==
    IntegratorCall("endCurvePrimitive", loc.context, loc.curve)

\* startParentCurvePrimitive(curve)
IntegratorStartParentCurvePrimitive ==
    IntegratorCall("startParentCurvePrimitive", loc.context, loc.curve)

\* endParentCurvePrimitive(curve)
IntegratorEndParentCurvePrimitive ==
    IntegratorCall("endParentCurvePrimitive", loc.context, loc.curve)

\* announceSegmentInterval for a segment of the curve
IntegratorAnnounceSegmentInterval ==
    \E i \in SegmentIndex :
        IntegratorCall("announceSegmentInterval",
            LengthAnnounceSegmentInterval(loc.context,
                SegmentStroke(call.curve, i).point0,
                SegmentStroke(call.curve, i).point1,
                SegmentStroke(call.curve, i).fraction0,
                SegmentStroke(call.curve, i).fraction1),
            loc.curve)

\* announceIntervalForUniformStepStrokes; startCurvePrimitive(cp) is called
\* when the clipped interval is not empty
IntegratorAnnounceIntervalForUniformStepStrokes ==
    \E numStrokes \in {0, NumSegments}, interval \in AnnouncedIntervals :
        IntegratorCall("announceIntervalForUniformStepStrokes",
            LengthAnnounceIntervalForUniformStepStrokes(loc.context,
                call.curve, numStrokes, interval.fraction0,
                interval.fraction1),
            IF Gt(ClippedInterval(loc.context, interval.fraction0,
                                  interval.fraction1).fraction1,
                  ClippedInterval(loc.context, interval.fraction0,
                                  interval.fraction1).fraction0)
            THEN call.curve ELSE loc.curve)

\* announcePointTangent for a sample of the curve
IntegratorAnnouncePointTangent ==
    \E fraction \in Fractions :
        IntegratorCall("announcePointTangent",
            LengthAnnouncePointTangent(loc.context,
                FractionToPoint(call.curve, fraction), fraction,
                FractionToDerivative(call.curve, fraction)),
            loc.curve)

\* getSum(), as curveLength returns it
IntegratorGetSum ==
    /\ pc = "integrator"
    /\ result' = loc.context.summedLength
    /\ pc' = "returned"
    /\ UNCHANGED <<call, loc, hist>>

IntegratorNext ==
    \/ IntegratorStartCurvePrimitive
    \/ IntegratorEndCurvePrimitive
    \/ IntegratorStartParentCurvePrimitive
    \/ IntegratorEndParentCurvePrimitive
    \/ IntegratorAnnounceSegmentInterval
    \/ IntegratorAnnounceIntervalForUniformStepStrokes
    \/ IntegratorAnnouncePointTangent
    \/ IntegratorGetSum

SpecIntegrator == IntegratorInit /\ [][IntegratorNext]_vars


\* The calls that only mark the start or end of a curve
IsBracketCall ==
    \/ IntegratorStartCurvePrimitive
    \/ IntegratorEndCurvePrimitive
    \/ IntegratorStartParentCurvePrimitive
    \/ IntegratorEndParentCurvePrimitive

\* C28: the sum of the integrator starts at 0, is never negative and never
\* decreases under any sequence of announceSegmentInterval and
\* announceIntervalForUniformStepStrokes calls; startCurvePrimitive,
\* endCurvePrimitive, startParentCurvePrimitive and
\* endParentCurvePrimitive leave it unchanged.
C28_SumNeverDecreases ==
    /\ loc.calls = 0 => loc.context.summedLength = Zero
    /\ [][/\ Le(Zero, loc.context.summedLength)
          /\ Le(loc.context.summedLength, loc'.context.summedLength)
          /\ IsBracketCall =>
               loc'.context.summedLength = loc.context.summedLength]_vars

\* Segments and uniform steps were announced and the sum grew, after an
\* announcement outside the interval of the integrator that added nothing
C28_Witness ==
    /\ "announceIntervalForUniformStepStrokes" \in loc.called
    /\ "announceSegmentInterval" \in loc.called
    /\ "startCurvePrimitive" \in loc.called
    /\ Gt(loc.context.summedLength, Zero)
    /\ loc.context.fraction0 # Zero

\* The methods a curve that announces only samples calls
SampleOnlyMethods ==
    {"startCurvePrimitive", "endCurvePrimitive", "startParentCurvePrimitive",
     "endParentCurvePrimitive", "announcePointTangent"}

---------------------------------------------------------------------------
(* The effective curve of the plane-intersection handler *)

\* The methods that establish an effective curve
EstablishingMethods ==
    {"startCurvePrimitive", "startParentCurvePrimitive",
     "announceIntervalForUniformStepStrokes"}

\* C30: a crossing found in announceSegmentInterval is appended only if an
\* effective curve was established earlier by startCurvePrimitive(curve),
\* startParentCurvePrimitive(curve) or
\* announceIntervalForUniformStepStrokes; the curve argument of
\* announceSegmentInterval is not used, and a segment announced with no
\* curve established appends nothing even when its ends straddle the plane.
C30_SegmentNeedsEffectiveCurve ==
    \A i \in DOMAIN hist :
        hist[i].method = "announceSegmentInterval" =>
            /\ hist[i].curveBefore = None => hist[i].sizeAfter = hist[i].sizeBefore
            /\ hist[i].sizeAfter > hist[i].sizeBefore =>
                 \E k \in 1..(i - 1) : hist[k].method \in EstablishingMethods

\* A segment that straddles the plane was announced before any curve was
\* established and added nothing; announced again after startCurvePrimitive
\* it added a record
C30_Witness ==
    \E i \in DOMAIN hist : \E j \in DOMAIN hist :
        /\ i < j
        /\ hist[i].method = "announceSegmentInterval"
        /\ hist[i].curveBefore = None
        /\ Len(hist[i].attempts) = 1
        /\ Lt(Mul(PlaneAltitude(call.plane,
                      FractionToPoint(call.curve, FirstSampleFraction)),
                  PlaneAltitude(call.plane,
                      FractionToPoint(call.curve, LastSampleFraction))), Zero)
        /\ hist[i].sizeAfter = hist[i].sizeBefore
        /\ hist[j].method = "announceSegmentInterval"
        /\ hist[j].sizeAfter = hist[j].sizeBefore + 1

=============================================================================
